---- MODULE Spec2Model ----
(***************************************************************************)
(* Data access layer (thalesfsp/dal): the six-operation storage contract   *)
(* as implemented by the memory, file, sftp, redis, insightly and postgres *)
(* adapters, and the fan-out / fan-in functions of package storage.        *)
(*                                                                         *)
(* One behaviour of Spec follows ONE adapter instance (chosen in Init)     *)
(* through a bounded number of operation calls.  A call is atomic: the     *)
(* whole handler runs in one step, every counter increment included.       *)
(*                                                                         *)
(* The environment of a call is part of its input record c:                *)
(*   c.hooks   which hooks the option list registers (WithPreHook /        *)
(*             WithPostHook)                                               *)
(*   c.failAt  which collaborator fails during the call, if any:           *)
(*             "option" an option function returns an error                *)
(*                      (e.g. WithPreHook(nil)),                           *)
(*             "pre" / "post" the registered hook returns an error,        *)
(*             "driver" the native client fails for a reason unrelated to  *)
(*                      the record (I/O, network, permission),             *)
(*             "codec"  shared.Marshal / Unmarshal / Encode / Decode fail. *)
(* The handlers are sequential, so the first failure decides a call and a  *)
(* single failure point per call covers every outcome.                     *)
(***************************************************************************)
EXTENDS Integers, Sequences, FiniteSets, TLC

\* ------------------------------------------------------------------------
\* Bounds
\* ------------------------------------------------------------------------
MaxCalls == 2

MaxOnce == 1

MaxRounds == 2

MaxMany == 2

MaxChildren == 2

MaxList == 2
\* Count and List calls of a SQL or search adapter in a behaviour
MaxQuery == 1
\* New, Get and Set calls in a behaviour
MaxSlot == 3
\* CreateMany and DeleteMany calls followed child by child in a behaviour
MaxJoin == 1

\* ------------------------------------------------------------------------
\* Universe of inputs
\* ------------------------------------------------------------------------
Adapters == {"memory", "file", "sftp", "redis", "insightly", "postgres"}

Ids == {"", "a", "b"}

Targets == {"", "t"}

StaticTargets == {"", "s"}

\* No record under a key.
Absent == [id |-> "", ver |-> 0]

\* A file that exists and holds no bytes (os.Create truncates).
Empty == [id |-> "", ver |-> -1]

\* A stored record is addressed by <<container, id>>.
Keys == (Targets \cup StaticTargets) \X Ids

HookNames == {"pre", "post"}

FailAt == {"none", "option", "pre", "driver", "codec", "post"}

\* *create.Create as the caller passes it: nil, a plain one, or one whose Any
\* is &file.CreateAny{CreateIfNotExist: true}.
Prms == {"nil", "default", "cine"}

CounterNames ==
    {"Counted", "CountedFailed", "Created", "CreatedFailed",
     "Retrieved", "RetrievedFailed", "Updated", "UpdatedFailed",
     "Deleted", "DeletedFailed", "Listed", "ListedFailed"}

NoCounter == "none"

VARIABLES
    adapter,       \* the adapter kind this instance is
    staticTarget,  \* its Target field
    counters,      \* the twelve expvar counters of its embedded Storage
    store,         \* the backend content: Keys -> value | Absent | Empty
    calls,         \* number of operation calls made
    last,          \* what the most recent call did and returned
    prev,          \* the same for the call before it
    created,       \* <<target, id>> -> value of the latest successful Create
    written,       \* key -> value of the latest successful Create at that key
    many,          \* the most recent fan-out / fan-in call
    query,         \* the most recent Count / List of a SQL or search adapter
    singleton,     \* adapter kind -> the package's singleton slot
    built,         \* number of adapters the New functions have built
    slotCall,      \* the most recent New / Get / Set call and what it returned
    assigned,      \* adapter kind -> value a successful New or a Set gave last
    exportedNow,   \* adapter kinds whose counters were exported this clock second
    fan            \* the fan-in call in progress and its child operations

vars == <<adapter, staticTarget, counters, store, calls, last, prev, created, written, many,
          query, singleton, built, slotCall, assigned, exportedNow, fan>>

\* The variables of the singleton slots.
slotVars == <<singleton, built, slotCall, assigned, exportedNow>>

\* ------------------------------------------------------------------------
\* Counters (storage.Storage) and the status enum
\* ------------------------------------------------------------------------
SuccessCounter(op) ==
    CASE op = "Count" -> "Counted"
      [] op = "Create" -> "Created"
      [] op = "Retrieve" -> "Retrieved"
      [] op = "Update" -> "Updated"
      [] op = "Delete" -> "Deleted"
      [] op = "List" -> "Listed"

FailedCounter(op) ==
    CASE op = "Count" -> "CountedFailed"
      [] op = "Create" -> "CreatedFailed"
      [] op = "Retrieve" -> "RetrievedFailed"
      [] op = "Update" -> "UpdatedFailed"
      [] op = "Delete" -> "DeletedFailed"
      [] op = "List" -> "ListedFailed"

\* customapm.TraceError(ctx, err, logger, counter): logs, increments the
\* counter it is handed (nil-safe) and returns err untouched.
TraceError(ctrs, counter) ==
    IF counter = NoCounter THEN ctrs ELSE [ctrs EXCEPT ![counter] = @ + 1]

\* counter.Add(1) on the success path.
Add1(ctrs, counter) == [ctrs EXCEPT ![counter] = @ + 1]

\* TargetName without the fallback to the adapter's static target.
TargetNameNoFallback(name, alternative) ==
    IF name # "" THEN [name |-> name, err |-> "nil"]
    ELSE [name |-> "", err |-> "missing_target"]

\* shared.TargetName(name, alternative)
TargetName(name, alternative) ==
    IF name # "" THEN [name |-> name, err |-> "nil"]
    ELSE IF alternative # "" THEN [name |-> alternative, err |-> "nil"]
    ELSE [name |-> "", err |-> "missing_target"]

\* storage.WithPreHook / WithPostHook / the options loop of every handler.
OptionFails(c) == c.failAt = "option"

PreHookRegistered(c) == "pre" \in c.hooks

PostHookRegistered(c) == "post" \in c.hooks

PreHookFails(c) == PreHookRegistered(c) /\ c.failAt = "pre"

PostHookFails(c) == PostHookRegistered(c) /\ c.failAt = "post"

DriverFails(c) == c.failAt = "driver"

CodecFails(c) == c.failAt = "codec"

\* Steps a call has gone through, as sets of step names.
Span == {"span"}

Pre(c) == IF PreHookRegistered(c) THEN {"pre"} ELSE {}

Post(c) == IF PostHookRegistered(c) THEN {"post"} ELSE {}

Driver == {"driver"}

\* ------------------------------------------------------------------------
\* Call inputs.  Two slices of the input space are explored:
\*   the wide slice  every failure point, hooks absent or both registered,
\*                   the empty id, every parameter shape of Create;
\*   the data slice  two ids and three values, record calls that run to the
\*                   end or fail in the post-hook, plain Count and List.
\* ------------------------------------------------------------------------
Call(op, id, target, v, prm, hf) ==
    [op |-> op, id |-> id, target |-> target, v |-> v, prm |-> prm,
     hooks |-> hf[1], failAt |-> hf[2]]

WideHookFail ==
    ({{}} \X {"none", "option", "driver", "codec"}) \cup ({HookNames} \X FailAt)

WideIds == {"", "a"}

\* A value is a document with an id column and a payload (version).
WideValues == {[id |-> "a", ver |-> 1], [id |-> "b", ver |-> 2]}

WideCalls ==
    {Call(x[1], "", x[2], Absent, "default", x[3]) :
        x \in {"Count", "List"} \X Targets \X WideHookFail}
    \cup
    {Call(x[1], x[2], x[3], Absent, "default", x[4]) :
        x \in {"Delete", "Retrieve"} \X WideIds \X Targets \X WideHookFail}
    \cup
    {Call("Update", x[1], x[2], x[3], "default", x[4]) :
        x \in WideIds \X Targets \X WideValues \X WideHookFail}
    \cup
    {Call("Create", x[1], x[2], x[3], x[4], x[5]) :
        x \in WideIds \X Targets \X WideValues \X Prms \X WideHookFail}

DataHookFail == {<<{}, "none">>, <<HookNames, "post">>}

DataIds == {"a", "b"}

DataValues == {[id |-> "a", ver |-> 1], [id |-> "a", ver |-> 2], [id |-> "b", ver |-> 1]}

\* The parameter of a data-slice Count: the defaults, or a Search that names
\* the id "a" alone.
DataCountPrms == {"default", "search"}

DataCalls ==
    {Call("List", "", t, Absent, "default", <<{}, "none">>) : t \in Targets}
    \cup
    {Call("Count", "", x[1], Absent, x[2], <<{}, "none">>) : x \in Targets \X DataCountPrms}
    \cup
    {Call(x[1], x[2], x[3], Absent, "default", x[4]) :
        x \in {"Delete", "Retrieve"} \X DataIds \X Targets \X DataHookFail}
    \cup
    {Call(x[1], x[2], x[3], x[4], "default", x[5]) :
        x \in {"Create", "Update"} \X DataIds \X Targets \X DataValues \X DataHookFail}

\* ------------------------------------------------------------------------
\* Return from a handler: the observable effects of one call
\* ------------------------------------------------------------------------
NoCall ==
    [op |-> "none", id |-> "", target |-> "", v |-> Absent, prm |-> "default",
     hooks |-> {}, failAt |-> "none", err |-> "nil", did |-> {}, drv |-> "not_called",
     key |-> <<"", "">>, addressed |-> FALSE, existed |-> FALSE, out |-> Absent, n |-> 0, rid |-> ""]

\* c     the call;  err  the error kind returned ("nil" on success)
\* ctrs  the counters after the call;  did  the steps gone through
\* drv   what the native client answered ("not_called", "ok", "not_exist", "error")
\* key   the record the call addresses (addressed = FALSE when it gets to none)
\* st    the backend content after the call
\* out / n / rid  the payload handed back (value / count / id)
Return(c, err, ctrs, did, drv, addressed, key, st, out, n, rid) ==
    /\ counters' = ctrs
    /\ store' = st
    /\ calls' = calls + 1
    /\ last' = [op |-> c.op, id |-> c.id, target |-> c.target, v |-> c.v, prm |-> c.prm,
                hooks |-> c.hooks, failAt |-> c.failAt, err |-> err, did |-> did, drv |-> drv,
                key |-> key, addressed |-> addressed,
                existed |-> addressed /\ store[key] # Absent,
                out |-> out, n |-> n, rid |-> rid]
    /\ prev' = last
    /\ created' =
         IF c.op = "Create" /\ err = "nil"
         THEN [created EXCEPT ![<<c.target, c.id>>] = c.v]
         ELSE IF c.op \in {"Update", "Delete"}
         THEN [k \in Keys |-> IF k[2] = c.id THEN Absent ELSE created[k]]
         ELSE created
    /\ written' =
         [k \in Keys |->
            IF c.op = "Create" /\ err = "nil" /\ addressed /\ k = key THEN c.v
            ELSE IF st[k] # store[k] THEN Absent
            ELSE IF addressed /\ k = key /\ c.op \in {"Create", "Update", "Delete"} THEN Absent
            ELSE written[k]]
    /\ UNCHANGED <<adapter, staticTarget, many, query, slotVars>>

NoKey == <<"", "">>

\* The failure path of a handler before it addresses any record.
Fail(c, err, counter, did) ==
    Return(c, err, TraceError(counters, counter), did, "not_called", FALSE, NoKey, store, Absent, 0, "")

\* ------------------------------------------------------------------------
\* memory: a sync.Map keyed by id; the target is not used
\* ------------------------------------------------------------------------
MemKey(id) == <<"", id>>

\* The ids in the map.
Stored(st) == {k \in Keys : st[k] # Absent}

\* Count that applies the Search of its parameter to the ids.
MemoryCountFiltered(c) ==
    /\ adapter = "memory"
    /\ c.op = "Count"
    /\ IF OptionFails(c) THEN Fail(c, "option", "CountedFailed", Span)
       ELSE IF PreHookFails(c) THEN Fail(c, "pre_hook", "CountedFailed", Span \cup Pre(c))
       ELSE LET count == IF c.prm = "search"
                         THEN Cardinality({k \in Stored(store) : k[2] = "a"})
                         ELSE Cardinality(Stored(store))
                did == Span \cup Pre(c) \cup Driver \cup Post(c)
            IN IF PostHookFails(c)
               THEN Return(c, "post_hook", TraceError(counters, "CountedFailed"), did, "ok",
                           FALSE, NoKey, store, Absent, 0, "")
               ELSE Return(c, "nil", Add1(counters, "Counted"), did, "ok",
                           FALSE, NoKey, store, Absent, count, "")

\* Count(ctx, target, prm, options...): client.Range counts every key; the
\* parameter is handed to the hooks and not read.
MemoryCount(c) ==
    /\ adapter = "memory"
    /\ c.op = "Count"
    /\ IF OptionFails(c) THEN Fail(c, "option", "CountedFailed", Span)
       ELSE IF PreHookFails(c) THEN Fail(c, "pre_hook", "CountedFailed", Span \cup Pre(c))
       ELSE LET count == Cardinality(Stored(store))
                did == Span \cup Pre(c) \cup Driver \cup Post(c)
            IN IF PostHookFails(c)
               THEN Return(c, "post_hook", TraceError(counters, "CountedFailed"), did, "ok",
                           FALSE, NoKey, store, Absent, 0, "")
               ELSE Return(c, "nil", Add1(counters, "Counted"), did, "ok",
                           FALSE, NoKey, store, Absent, count, "")

MemoryDelete(c) ==
    /\ adapter = "memory"
    /\ c.op = "Delete"
    /\ IF c.id = "" THEN Fail(c, "required_id", "DeletedFailed", {})
       ELSE IF OptionFails(c) THEN Fail(c, "option", "DeletedFailed", Span)
       ELSE IF PreHookFails(c)
       THEN Return(c, "pre_hook", TraceError(counters, "DeletedFailed"), Span \cup Pre(c),
                   "not_called", TRUE, MemKey(c.id), store, Absent, 0, "")
       ELSE LET st == [store EXCEPT ![MemKey(c.id)] = Absent]
                did == Span \cup Pre(c) \cup Driver \cup Post(c)
            IN IF PostHookFails(c)
               THEN Return(c, "post_hook", TraceError(counters, "DeletedFailed"), did, "ok",
                           TRUE, MemKey(c.id), st, Absent, 0, "")
               ELSE Return(c, "nil", Add1(counters, "Deleted"), did, "ok",
                           TRUE, MemKey(c.id), st, Absent, 0, "")

MemoryRetrieve(c) ==
    /\ adapter = "memory"
    /\ c.op = "Retrieve"
    /\ IF c.id = "" THEN Fail(c, "required_id", "RetrievedFailed", {})
       ELSE IF OptionFails(c) THEN Fail(c, "option", "RetrievedFailed", Span)
       ELSE IF PreHookFails(c)
       THEN Return(c, "pre_hook", TraceError(counters, "RetrievedFailed"), Span \cup Pre(c),
                   "not_called", TRUE, MemKey(c.id), store, Absent, 0, "")
       ELSE IF store[MemKey(c.id)] = Absent
       THEN Return(c, "not_found", TraceError(counters, "RetrievedFailed"),
                   Span \cup Pre(c) \cup Driver, "not_exist", TRUE, MemKey(c.id), store, Absent, 0, "")
       ELSE IF CodecFails(c)
       THEN Return(c, "codec", TraceError(counters, "RetrievedFailed"),
                   Span \cup Pre(c) \cup Driver, "ok", TRUE, MemKey(c.id), store, Absent, 0, "")
       ELSE LET did == Span \cup Pre(c) \cup Driver \cup Post(c)
            IN IF PostHookFails(c)
               THEN Return(c, "post_hook", TraceError(counters, "RetrievedFailed"), did, "ok",
                           TRUE, MemKey(c.id), store, store[MemKey(c.id)], 0, "")
               ELSE Return(c, "nil", Add1(counters, "Retrieved"), did, "ok",
                           TRUE, MemKey(c.id), store, store[MemKey(c.id)], 0, "")

MemoryList(c) ==
    /\ adapter = "memory"
    /\ c.op = "List"
    /\ IF OptionFails(c) THEN Fail(c, "option", "ListedFailed", Span)
       ELSE IF PreHookFails(c) THEN Fail(c, "pre_hook", "ListedFailed", Span \cup Pre(c))
       ELSE IF CodecFails(c)
       THEN Return(c, "codec", TraceError(counters, "ListedFailed"),
                   Span \cup Pre(c) \cup Driver, "ok", FALSE, NoKey, store, Absent, 0, "")
       ELSE LET n == Cardinality({k \in Keys : store[k] # Absent})
                did == Span \cup Pre(c) \cup Driver \cup Post(c)
            IN IF PostHookFails(c)
               THEN Return(c, "post_hook", TraceError(counters, "ListedFailed"), did, "ok",
                           FALSE, NoKey, store, Absent, 0, "")
               ELSE Return(c, "nil", Add1(counters, "Listed"), did, "ok",
                           FALSE, NoKey, store, Absent, n, "")

MemoryCreate(c) ==
    /\ adapter = "memory"
    /\ c.op = "Create"
    /\ IF OptionFails(c) THEN Fail(c, "option", "CreatedFailed", Span)
       ELSE IF PreHookFails(c)
       THEN Return(c, "pre_hook", TraceError(counters, "CreatedFailed"), Span \cup Pre(c),
                   "not_called", TRUE, MemKey(c.id), store, Absent, 0, "")
       ELSE IF CodecFails(c)
       THEN Return(c, "codec", TraceError(counters, "CreatedFailed"), Span \cup Pre(c),
                   "not_called", TRUE, MemKey(c.id), store, Absent, 0, "")
       ELSE LET st == [store EXCEPT ![MemKey(c.id)] = c.v]
                did == Span \cup Pre(c) \cup Driver \cup Post(c)
            IN IF PostHookFails(c)
               THEN Return(c, "post_hook", TraceError(counters, "CreatedFailed"), did, "ok",
                           TRUE, MemKey(c.id), st, Absent, 0, "")
               ELSE Return(c, "nil", Add1(counters, "Created"), did, "ok",
                           TRUE, MemKey(c.id), st, Absent, 0, c.id)

MemoryUpdate(c) ==
    /\ adapter = "memory"
    /\ c.op = "Update"
    /\ IF c.id = "" THEN Fail(c, "required_id", "UpdatedFailed", {})
       ELSE IF OptionFails(c) THEN Fail(c, "option", "UpdatedFailed", Span)
       ELSE IF PreHookFails(c)
       THEN Return(c, "pre_hook", TraceError(counters, "UpdatedFailed"), Span \cup Pre(c),
                   "not_called", TRUE, MemKey(c.id), store, Absent, 0, "")
       ELSE IF CodecFails(c)
       THEN Return(c, "codec", TraceError(counters, "UpdatedFailed"), Span \cup Pre(c),
                   "not_called", TRUE, MemKey(c.id), store, Absent, 0, "")
       ELSE LET st == [store EXCEPT ![MemKey(c.id)] = c.v]
                did == Span \cup Pre(c) \cup Driver \cup Post(c)
            IN IF PostHookFails(c)
               THEN Return(c, "post_hook", TraceError(counters, "UpdatedFailed"), did, "ok",
                           TRUE, MemKey(c.id), st, Absent, 0, "")
               ELSE Return(c, "nil", Add1(counters, "Updated"), did, "ok",
                           TRUE, MemKey(c.id), st, Absent, 0, "")

\* ------------------------------------------------------------------------
\* file: one JSON document per path; the resolved target IS the path and the
\* id takes no part in addressing
\* ------------------------------------------------------------------------
PathKey(trgt) == <<trgt, "">>

\* fs.Glob swallows I/O errors, so the driver cannot fail a Count or a List;
\* no path of the model is a directory holding documents.
FileCount(c) ==
    /\ adapter = "file"
    /\ c.op = "Count"
    /\ LET t == TargetName(c.target, staticTarget)
       IN IF OptionFails(c) THEN Fail(c, "option", "CountedFailed", Span)
          ELSE IF t.err # "nil" THEN Fail(c, t.err, "CountedFailed", Span)
          ELSE IF PreHookFails(c) THEN Fail(c, "pre_hook", "CountedFailed", Span \cup Pre(c))
          ELSE LET did == Span \cup Pre(c) \cup Driver \cup Post(c)
               IN IF PostHookFails(c)
                  THEN Return(c, "post_hook", TraceError(counters, "CountedFailed"), did, "ok",
                              FALSE, NoKey, store, Absent, 0, "")
                  ELSE Return(c, "nil", Add1(counters, "Counted"), did, "ok",
                              FALSE, NoKey, store, Absent, 0, "")

\* os.Remove of a path that does not exist: the handler returns nil at once.
FileDelete(c) ==
    /\ adapter = "file"
    /\ c.op = "Delete"
    /\ LET t == TargetName(c.target, staticTarget)
           k == PathKey(t.name)
       IN IF c.id = "" THEN Fail(c, "required_id", "DeletedFailed", {})
          ELSE IF OptionFails(c) THEN Fail(c, "option", "DeletedFailed", Span)
          ELSE IF t.err # "nil" THEN Fail(c, t.err, "DeletedFailed", Span)
          ELSE IF PreHookFails(c)
          THEN Return(c, "pre_hook", TraceError(counters, "DeletedFailed"), Span \cup Pre(c),
                      "not_called", TRUE, k, store, Absent, 0, "")
          ELSE IF DriverFails(c)
          THEN Return(c, "failed_to", TraceError(counters, "DeletedFailed"),
                      Span \cup Pre(c) \cup Driver, "error", TRUE, k, store, Absent, 0, "")
          ELSE IF store[k] = Absent
          THEN Return(c, "nil", counters, Span \cup Pre(c) \cup Driver, "not_exist",
                      TRUE, k, store, Absent, 0, "")
          ELSE LET st == [store EXCEPT ![k] = Absent]
                   did == Span \cup Pre(c) \cup Driver \cup Post(c)
               IN IF PostHookFails(c)
                  THEN Return(c, "post_hook", TraceError(counters, "DeletedFailed"), did, "ok",
                              TRUE, k, st, Absent, 0, "")
                  ELSE Return(c, "nil", Add1(counters, "Deleted"), did, "ok",
                              TRUE, k, st, Absent, 0, "")

\* The target-resolution failure is traced with GetCounterDeletedFailed().
FileRetrieve(c) ==
    /\ adapter = "file"
    /\ c.op = "Retrieve"
    /\ LET t == TargetName(c.target, staticTarget)
           k == PathKey(t.name)
       IN IF c.id = "" THEN Fail(c, "required_id", "RetrievedFailed", {})
          ELSE IF OptionFails(c) THEN Fail(c, "option", "RetrievedFailed", Span)
          ELSE IF t.err # "nil" THEN Fail(c, t.err, "DeletedFailed", Span)
          ELSE IF PreHookFails(c)
          THEN Return(c, "pre_hook", TraceError(counters, "RetrievedFailed"), Span \cup Pre(c),
                      "not_called", TRUE, k, store, Absent, 0, "")
          ELSE IF DriverFails(c)
          THEN Return(c, "failed_to", TraceError(counters, "RetrievedFailed"),
                      Span \cup Pre(c) \cup Driver, "error", TRUE, k, store, Absent, 0, "")
          ELSE IF store[k] = Absent
          THEN Return(c, "not_found", TraceError(counters, "RetrievedFailed"),
                      Span \cup Pre(c) \cup Driver, "not_exist", TRUE, k, store, Absent, 0, "")
          ELSE IF CodecFails(c) \/ store[k] = Empty
          THEN Return(c, "codec", TraceError(counters, "RetrievedFailed"),
                      Span \cup Pre(c) \cup Driver, "ok", TRUE, k, store, Absent, 0, "")
          ELSE LET did == Span \cup Pre(c) \cup Driver \cup Post(c)
               IN IF PostHookFails(c)
                  THEN Return(c, "post_hook", TraceError(counters, "RetrievedFailed"), did, "ok",
                              TRUE, k, store, store[k], 0, "")
                  ELSE Return(c, "nil", Add1(counters, "Retrieved"), did, "ok",
                              TRUE, k, store, store[k], 0, "")

FileList(c) ==
    /\ adapter = "file"
    /\ c.op = "List"
    /\ LET t == TargetName(c.target, staticTarget)
       IN IF OptionFails(c) THEN Fail(c, "option", "ListedFailed", Span)
          ELSE IF t.err # "nil" THEN Fail(c, t.err, "ListedFailed", Span)
          ELSE IF PreHookFails(c) THEN Fail(c, "pre_hook", "ListedFailed", Span \cup Pre(c))
          ELSE IF CodecFails(c)
          THEN Return(c, "codec", TraceError(counters, "ListedFailed"),
                      Span \cup Pre(c) \cup Driver, "ok", FALSE, NoKey, store, Absent, 0, "")
          ELSE LET did == Span \cup Pre(c) \cup Driver \cup Post(c)
               IN IF PostHookFails(c)
                  THEN Return(c, "post_hook", TraceError(counters, "ListedFailed"), did, "ok",
                              FALSE, NoKey, store, Absent, 0, "")
                  ELSE Return(c, "nil", Add1(counters, "Listed"), did, "ok",
                              FALSE, NoKey, store, Absent, 0, "")

\* The CreateIfNotExist branch of Create: os.Stat / os.MkdirAll / os.Create
\* on the caller's raw target, run before the target is resolved and before
\* the pre-hook.  Stat("") and Create("") answer "no such file".
CreateIfNotExist(c) == c.prm = "cine"

PrepFails(c) == CreateIfNotExist(c) /\ c.target = ""

PrepStore(c) ==
    IF CreateIfNotExist(c) /\ c.target # "" /\ ~DriverFails(c) /\ store[PathKey(c.target)] = Absent
    THEN [store EXCEPT ![PathKey(c.target)] = Empty]
    ELSE store

PrepDid(c) == IF CreateIfNotExist(c) THEN Driver ELSE {}

\* prm.Any is read before prm is compared with nil: a nil prm panics.
FileCreate(c) ==
    /\ adapter = "file"
    /\ c.op = "Create"
    /\ LET t == TargetName(c.target, staticTarget)
           k == PathKey(t.name)
           st0 == PrepStore(c)
           did0 == Span \cup PrepDid(c)
       IN IF OptionFails(c) THEN Fail(c, "option", "CreatedFailed", Span)
          ELSE IF c.prm = "nil"
          THEN Return(c, "panic", counters, Span, "not_called", FALSE, NoKey, store, Absent, 0, "")
          ELSE IF PrepFails(c)
          THEN Return(c, "io", TraceError(counters, "CreatedFailed"), did0, "error",
                      FALSE, NoKey, store, Absent, 0, "")
          ELSE IF t.err # "nil" THEN Fail(c, t.err, "CreatedFailed", Span)
          ELSE IF PreHookFails(c)
          THEN Return(c, "pre_hook", TraceError(counters, "CreatedFailed"), did0 \cup Pre(c),
                      IF CreateIfNotExist(c) THEN "ok" ELSE "not_called",
                      TRUE, k, st0, Absent, 0, "")
          ELSE IF DriverFails(c)
          THEN Return(c, "failed_to", TraceError(counters, "CreatedFailed"),
                      Span \cup Pre(c) \cup Driver, "error", TRUE, k, st0, Absent, 0, "")
          ELSE IF CodecFails(c)
          THEN Return(c, "codec", TraceError(counters, "CreatedFailed"),
                      Span \cup Pre(c) \cup Driver, "ok", TRUE, k,
                      [st0 EXCEPT ![k] = Empty], Absent, 0, "")
          ELSE LET st == [st0 EXCEPT ![k] = c.v]
                   did == Span \cup Pre(c) \cup Driver \cup Post(c)
               IN IF PostHookFails(c)
                  THEN Return(c, "post_hook", TraceError(counters, "CreatedFailed"), did, "ok",
                              TRUE, k, st, Absent, 0, "")
                  ELSE Return(c, "nil", Add1(counters, "Created"), did, "ok",
                              TRUE, k, st, Absent, 0, c.id)

FileUpdate(c) ==
    /\ adapter = "file"
    /\ c.op = "Update"
    /\ LET t == TargetName(c.target, staticTarget)
           k == PathKey(t.name)
       IN IF c.id = "" THEN Fail(c, "required_id", "UpdatedFailed", {})
          ELSE IF OptionFails(c) THEN Fail(c, "option", "UpdatedFailed", Span)
          ELSE IF t.err # "nil" THEN Fail(c, t.err, "UpdatedFailed", Span)
          ELSE IF PreHookFails(c)
          THEN Return(c, "pre_hook", TraceError(counters, "UpdatedFailed"), Span \cup Pre(c),
                      "not_called", TRUE, k, store, Absent, 0, "")
          ELSE IF DriverFails(c)
          THEN Return(c, "failed_to", TraceError(counters, "UpdatedFailed"),
                      Span \cup Pre(c) \cup Driver, "error", TRUE, k, store, Absent, 0, "")
          ELSE IF CodecFails(c)
          THEN Return(c, "codec", TraceError(counters, "UpdatedFailed"),
                      Span \cup Pre(c) \cup Driver, "ok", TRUE, k,
                      [store EXCEPT ![k] = Empty], Absent, 0, "")
          ELSE LET st == [store EXCEPT ![k] = c.v]
                   did == Span \cup Pre(c) \cup Driver \cup Post(c)
               IN IF PostHookFails(c)
                  THEN Return(c, "post_hook", TraceError(counters, "UpdatedFailed"), did, "ok",
                              TRUE, k, st, Absent, 0, "")
                  ELSE Return(c, "nil", Add1(counters, "Updated"), did, "ok",
                              TRUE, k, st, Absent, 0, "")

\* ------------------------------------------------------------------------
\* sftp: one JSON document per remote path; addressing as in file
\* ------------------------------------------------------------------------
SFTPCount(c) ==
    /\ adapter = "sftp"
    /\ c.op = "Count"
    /\ LET t == TargetName(c.target, staticTarget)
       IN IF OptionFails(c) THEN Fail(c, "option", "CountedFailed", Span)
          ELSE IF t.err # "nil" THEN Fail(c, t.err, "CountedFailed", Span)
          ELSE IF PreHookFails(c) THEN Fail(c, "pre_hook", "CountedFailed", Span \cup Pre(c))
          ELSE IF DriverFails(c)
          THEN Return(c, "failed_to", TraceError(counters, "CountedFailed"),
                      Span \cup Pre(c) \cup Driver, "error", FALSE, NoKey, store, Absent, 0, "")
          ELSE LET did == Span \cup Pre(c) \cup Driver \cup Post(c)
               IN IF PostHookFails(c)
                  THEN Return(c, "post_hook", TraceError(counters, "CountedFailed"), did, "ok",
                              FALSE, NoKey, store, Absent, 0, "")
                  ELSE Return(c, "nil", Add1(counters, "Counted"), did, "ok",
                              FALSE, NoKey, store, Absent, 0, "")

\* SFTPDelete without the errors.Is(err, os.ErrNotExist) tolerance.
SFTPDeleteStrict(c) ==
    /\ adapter = "sftp"
    /\ c.op = "Delete"
    /\ LET t == TargetName(c.target, staticTarget)
           k == PathKey(t.name)
       IN IF c.id = "" THEN Fail(c, "required_id", "DeletedFailed", {})
          ELSE IF OptionFails(c) THEN Fail(c, "option", "DeletedFailed", Span)
          ELSE IF t.err # "nil" THEN Fail(c, t.err, "DeletedFailed", Span)
          ELSE IF PreHookFails(c)
          THEN Return(c, "pre_hook", TraceError(counters, "DeletedFailed"), Span \cup Pre(c),
                      "not_called", TRUE, k, store, Absent, 0, "")
          ELSE IF DriverFails(c) \/ store[k] = Absent
          THEN Return(c, "failed_to", TraceError(counters, "DeletedFailed"),
                      Span \cup Pre(c) \cup Driver, "error", TRUE, k, store, Absent, 0, "")
          ELSE LET st == [store EXCEPT ![k] = Absent]
                   drv == IF store[k] = Absent THEN "not_exist" ELSE "ok"
                   did == Span \cup Pre(c) \cup Driver \cup Post(c)
               IN IF PostHookFails(c)
                  THEN Return(c, "post_hook", TraceError(counters, "DeletedFailed"), did, drv,
                              TRUE, k, st, Absent, 0, "")
                  ELSE Return(c, "nil", Add1(counters, "Deleted"), did, drv,
                              TRUE, k, st, Absent, 0, "")

\* Client.Remove of a path that does not exist: the error is tolerated and the
\* handler carries on with the post-hook and the success counter.
SFTPDelete(c) ==
    /\ adapter = "sftp"
    /\ c.op = "Delete"
    /\ LET t == TargetName(c.target, staticTarget)
           k == PathKey(t.name)
       IN IF c.id = "" THEN Fail(c, "required_id", "DeletedFailed", {})
          ELSE IF OptionFails(c) THEN Fail(c, "option", "DeletedFailed", Span)
          ELSE IF t.err # "nil" THEN Fail(c, t.err, "DeletedFailed", Span)
          ELSE IF PreHookFails(c)
          THEN Return(c, "pre_hook", TraceError(counters, "DeletedFailed"), Span \cup Pre(c),
                      "not_called", TRUE, k, store, Absent, 0, "")
          ELSE IF DriverFails(c)
          THEN Return(c, "failed_to", TraceError(counters, "DeletedFailed"),
                      Span \cup Pre(c) \cup Driver, "error", TRUE, k, store, Absent, 0, "")
          ELSE LET st == [store EXCEPT ![k] = Absent]
                   drv == IF store[k] = Absent THEN "not_exist" ELSE "ok"
                   did == Span \cup Pre(c) \cup Driver \cup Post(c)
               IN IF PostHookFails(c)
                  THEN Return(c, "post_hook", TraceError(counters, "DeletedFailed"), did, drv,
                              TRUE, k, st, Absent, 0, "")
                  ELSE Return(c, "nil", Add1(counters, "Deleted"), did, drv,
                              TRUE, k, st, Absent, 0, "")

\* Client.Open: every error, "no such file" included, is wrapped as a
\* failed-to error.
SFTPRetrieve(c) ==
    /\ adapter = "sftp"
    /\ c.op = "Retrieve"
    /\ LET t == TargetName(c.target, staticTarget)
           k == PathKey(t.name)
       IN IF c.id = "" THEN Fail(c, "required_id", "RetrievedFailed", {})
          ELSE IF OptionFails(c) THEN Fail(c, "option", "RetrievedFailed", Span)
          ELSE IF t.err # "nil" THEN Fail(c, t.err, "RetrievedFailed", Span)
          ELSE IF PreHookFails(c)
          THEN Return(c, "pre_hook", TraceError(counters, "RetrievedFailed"), Span \cup Pre(c),
                      "not_called", TRUE, k, store, Absent, 0, "")
          ELSE IF DriverFails(c) \/ store[k] = Absent
          THEN Return(c, "failed_to", TraceError(counters, "RetrievedFailed"),
                      Span \cup Pre(c) \cup Driver,
                      IF DriverFails(c) THEN "error" ELSE "not_exist",
                      TRUE, k, store, Absent, 0, "")
          ELSE IF CodecFails(c) \/ store[k] = Empty
          THEN Return(c, "codec", TraceError(counters, "RetrievedFailed"),
                      Span \cup Pre(c) \cup Driver, "ok", TRUE, k, store, Absent, 0, "")
          ELSE LET did == Span \cup Pre(c) \cup Driver \cup Post(c)
               IN IF PostHookFails(c)
                  THEN Return(c, "post_hook", TraceError(counters, "RetrievedFailed"), did, "ok",
                              TRUE, k, store, store[k], 0, "")
                  ELSE Return(c, "nil", Add1(counters, "Retrieved"), did, "ok",
                              TRUE, k, store, store[k], 0, "")

SFTPList(c) ==
    /\ adapter = "sftp"
    /\ c.op = "List"
    /\ LET t == TargetName(c.target, staticTarget)
       IN IF OptionFails(c) THEN Fail(c, "option", "ListedFailed", Span)
          ELSE IF t.err # "nil" THEN Fail(c, t.err, "ListedFailed", Span)
          ELSE IF PreHookFails(c) THEN Fail(c, "pre_hook", "ListedFailed", Span \cup Pre(c))
          ELSE IF DriverFails(c)
          THEN Return(c, "failed_to", TraceError(counters, "ListedFailed"),
                      Span \cup Pre(c) \cup Driver, "error", FALSE, NoKey, store, Absent, 0, "")
          ELSE IF CodecFails(c)
          THEN Return(c, "codec", TraceError(counters, "ListedFailed"),
                      Span \cup Pre(c) \cup Driver, "ok", FALSE, NoKey, store, Absent, 0, "")
          ELSE LET did == Span \cup Pre(c) \cup Driver \cup Post(c)
               IN IF PostHookFails(c)
                  THEN Return(c, "post_hook", TraceError(counters, "ListedFailed"), did, "ok",
                              FALSE, NoKey, store, Absent, 0, "")
                  ELSE Return(c, "nil", Add1(counters, "Listed"), did, "ok",
                              FALSE, NoKey, store, Absent, 0, "")

\* SFTPCreate without dstFile.Write: the remote file is created and left empty.
SFTPCreateNoWrite(c) ==
    /\ adapter = "sftp"
    /\ c.op = "Create"
    /\ LET t == TargetName(c.target, staticTarget)
           k == PathKey(t.name)
       IN IF OptionFails(c) THEN Fail(c, "option", "CreatedFailed", Span)
          ELSE IF t.err # "nil" THEN Fail(c, t.err, "CreatedFailed", Span)
          ELSE IF PreHookFails(c)
          THEN Return(c, "pre_hook", TraceError(counters, "CreatedFailed"), Span \cup Pre(c),
                      "not_called", TRUE, k, store, Absent, 0, "")
          ELSE IF CodecFails(c)
          THEN Return(c, "codec", TraceError(counters, "CreatedFailed"), Span \cup Pre(c),
                      "not_called", TRUE, k, store, Absent, 0, "")
          ELSE IF DriverFails(c)
          THEN Return(c, "failed_to", TraceError(counters, "CreatedFailed"),
                      Span \cup Pre(c) \cup Driver, "error", TRUE, k, store, Absent, 0, "")
          ELSE LET st == [store EXCEPT ![k] = Empty]
                   did == Span \cup Pre(c) \cup Driver \cup Post(c)
               IN IF PostHookFails(c)
                  THEN Return(c, "post_hook", TraceError(counters, "CreatedFailed"), did, "ok",
                              TRUE, k, st, Absent, 0, "")
                  ELSE Return(c, "nil", Add1(counters, "Created"), did, "ok",
                              TRUE, k, st, Absent, 0, c.id)

\* shared.Marshal runs before Client.Create, so a codec failure leaves the
\* remote file alone.
SFTPCreate(c) ==
    /\ adapter = "sftp"
    /\ c.op = "Create"
    /\ LET t == TargetName(c.target, staticTarget)
           k == PathKey(t.name)
       IN IF OptionFails(c) THEN Fail(c, "option", "CreatedFailed", Span)
          ELSE IF t.err # "nil" THEN Fail(c, t.err, "CreatedFailed", Span)
          ELSE IF PreHookFails(c)
          THEN Return(c, "pre_hook", TraceError(counters, "CreatedFailed"), Span \cup Pre(c),
                      "not_called", TRUE, k, store, Absent, 0, "")
          ELSE IF CodecFails(c)
          THEN Return(c, "codec", TraceError(counters, "CreatedFailed"), Span \cup Pre(c),
                      "not_called", TRUE, k, store, Absent, 0, "")
          ELSE IF DriverFails(c)
          THEN Return(c, "failed_to", TraceError(counters, "CreatedFailed"),
                      Span \cup Pre(c) \cup Driver, "error", TRUE, k, store, Absent, 0, "")
          ELSE LET st == [store EXCEPT ![k] = c.v]
                   did == Span \cup Pre(c) \cup Driver \cup Post(c)
               IN IF PostHookFails(c)
                  THEN Return(c, "post_hook", TraceError(counters, "CreatedFailed"), did, "ok",
                              TRUE, k, st, Absent, 0, "")
                  ELSE Return(c, "nil", Add1(counters, "Created"), did, "ok",
                              TRUE, k, st, Absent, 0, c.id)

SFTPUpdate(c) ==
    /\ adapter = "sftp"
    /\ c.op = "Update"
    /\ LET t == TargetName(c.target, staticTarget)
           k == PathKey(t.name)
       IN IF c.id = "" THEN Fail(c, "required_id", "UpdatedFailed", {})
          ELSE IF OptionFails(c) THEN Fail(c, "option", "UpdatedFailed", Span)
          ELSE IF t.err # "nil" THEN Fail(c, t.err, "UpdatedFailed", Span)
          ELSE IF PreHookFails(c)
          THEN Return(c, "pre_hook", TraceError(counters, "UpdatedFailed"), Span \cup Pre(c),
                      "not_called", TRUE, k, store, Absent, 0, "")
          ELSE IF CodecFails(c)
          THEN Return(c, "codec", TraceError(counters, "UpdatedFailed"), Span \cup Pre(c),
                      "not_called", TRUE, k, store, Absent, 0, "")
          ELSE IF DriverFails(c)
          THEN Return(c, "failed_to", TraceError(counters, "UpdatedFailed"),
                      Span \cup Pre(c) \cup Driver, "error", TRUE, k, store, Absent, 0, "")
          ELSE LET st == [store EXCEPT ![k] = c.v]
                   did == Span \cup Pre(c) \cup Driver \cup Post(c)
               IN IF PostHookFails(c)
                  THEN Return(c, "post_hook", TraceError(counters, "UpdatedFailed"), did, "ok",
                              TRUE, k, st, Absent, 0, "")
                  ELSE Return(c, "nil", Add1(counters, "Updated"), did, "ok",
                              TRUE, k, st, Absent, 0, "")

\* ------------------------------------------------------------------------
\* redis: one key per id; the target is not used
\* ------------------------------------------------------------------------
RedisCount(c) ==
    /\ adapter = "redis"
    /\ c.op = "Count"
    /\ IF OptionFails(c) THEN Fail(c, "option", "CountedFailed", Span)
       ELSE IF PreHookFails(c) THEN Fail(c, "pre_hook", "CountedFailed", Span \cup Pre(c))
       ELSE IF DriverFails(c)
       THEN Return(c, "failed_to", TraceError(counters, "CountedFailed"),
                   Span \cup Pre(c) \cup Driver, "error", FALSE, NoKey, store, Absent, 0, "")
       ELSE LET count == Cardinality({k \in Keys : store[k] # Absent})
                did == Span \cup Pre(c) \cup Driver \cup Post(c)
            IN IF PostHookFails(c)
               THEN Return(c, "post_hook", TraceError(counters, "CountedFailed"), did, "ok",
                           FALSE, NoKey, store, Absent, 0, "")
               ELSE Return(c, "nil", Add1(counters, "Counted"), did, "ok",
                           FALSE, NoKey, store, Absent, count, "")

RedisDelete(c) ==
    /\ adapter = "redis"
    /\ c.op = "Delete"
    /\ LET k == MemKey(c.id)
       IN IF c.id = "" THEN Fail(c, "required_id", "DeletedFailed", {})
          ELSE IF OptionFails(c) THEN Fail(c, "option", "DeletedFailed", Span)
          ELSE IF PreHookFails(c)
          THEN Return(c, "pre_hook", TraceError(counters, "DeletedFailed"), Span \cup Pre(c),
                      "not_called", TRUE, k, store, Absent, 0, "")
          ELSE IF DriverFails(c)
          THEN Return(c, "failed_to", TraceError(counters, "DeletedFailed"),
                      Span \cup Pre(c) \cup Driver, "error", TRUE, k, store, Absent, 0, "")
          ELSE LET st == [store EXCEPT ![k] = Absent]
                   did == Span \cup Pre(c) \cup Driver \cup Post(c)
               IN IF PostHookFails(c)
                  THEN Return(c, "post_hook", TraceError(counters, "DeletedFailed"), did, "ok",
                              TRUE, k, st, Absent, 0, "")
                  ELSE Return(c, "nil", Add1(counters, "Deleted"), did, "ok",
                              TRUE, k, st, Absent, 0, "")

\* Client.Get answering redis.Nil becomes the HTTP 404 error.
RedisRetrieve(c) ==
    /\ adapter = "redis"
    /\ c.op = "Retrieve"
    /\ LET k == MemKey(c.id)
       IN IF c.id = "" THEN Fail(c, "required_id", "RetrievedFailed", {})
          ELSE IF OptionFails(c) THEN Fail(c, "option", "RetrievedFailed", Span)
          ELSE IF PreHookFails(c)
          THEN Return(c, "pre_hook", TraceError(counters, "RetrievedFailed"), Span \cup Pre(c),
                      "not_called", TRUE, k, store, Absent, 0, "")
          ELSE IF DriverFails(c)
          THEN Return(c, "failed_to", TraceError(counters, "RetrievedFailed"),
                      Span \cup Pre(c) \cup Driver, "error", TRUE, k, store, Absent, 0, "")
          ELSE IF store[k] = Absent
          THEN Return(c, "not_found", TraceError(counters, "RetrievedFailed"),
                      Span \cup Pre(c) \cup Driver, "not_exist", TRUE, k, store, Absent, 0, "")
          ELSE IF CodecFails(c)
          THEN Return(c, "codec", TraceError(counters, "RetrievedFailed"),
                      Span \cup Pre(c) \cup Driver, "ok", TRUE, k, store, Absent, 0, "")
          ELSE LET did == Span \cup Pre(c) \cup Driver \cup Post(c)
               IN IF PostHookFails(c)
                  THEN Return(c, "post_hook", TraceError(counters, "RetrievedFailed"), did, "ok",
                              TRUE, k, store, store[k], 0, "")
                  ELSE Return(c, "nil", Add1(counters, "Retrieved"), did, "ok",
                              TRUE, k, store, store[k], 0, "")

RedisList(c) ==
    /\ adapter = "redis"
    /\ c.op = "List"
    /\ IF OptionFails(c) THEN Fail(c, "option", "ListedFailed", Span)
       ELSE IF PreHookFails(c) THEN Fail(c, "pre_hook", "ListedFailed", Span \cup Pre(c))
       ELSE IF DriverFails(c)
       THEN Return(c, "failed_to", TraceError(counters, "ListedFailed"),
                   Span \cup Pre(c) \cup Driver, "error", FALSE, NoKey, store, Absent, 0, "")
       ELSE IF CodecFails(c)
       THEN Return(c, "codec", TraceError(counters, "ListedFailed"),
                   Span \cup Pre(c) \cup Driver, "ok", FALSE, NoKey, store, Absent, 0, "")
       ELSE LET n == Cardinality({k \in Keys : store[k] # Absent})
                did == Span \cup Pre(c) \cup Driver \cup Post(c)
            IN IF PostHookFails(c)
               THEN Return(c, "post_hook", TraceError(counters, "ListedFailed"), did, "ok",
                           FALSE, NoKey, store, Absent, 0, "")
               ELSE Return(c, "nil", Add1(counters, "Listed"), did, "ok",
                           FALSE, NoKey, store, Absent, n, "")

RedisCreate(c) ==
    /\ adapter = "redis"
    /\ c.op = "Create"
    /\ LET k == MemKey(c.id)
       IN IF OptionFails(c) THEN Fail(c, "option", "CreatedFailed", Span)
          ELSE IF PreHookFails(c)
          THEN Return(c, "pre_hook", TraceError(counters, "CreatedFailed"), Span \cup Pre(c),
                      "not_called", TRUE, k, store, Absent, 0, "")
          ELSE IF CodecFails(c)
          THEN Return(c, "codec", TraceError(counters, "CreatedFailed"), Span \cup Pre(c),
                      "not_called", TRUE, k, store, Absent, 0, "")
          ELSE IF DriverFails(c)
          THEN Return(c, "failed_to", TraceError(counters, "CreatedFailed"),
                      Span \cup Pre(c) \cup Driver, "error", TRUE, k, store, Absent, 0, "")
          ELSE LET st == [store EXCEPT ![k] = c.v]
                   did == Span \cup Pre(c) \cup Driver \cup Post(c)
               IN IF PostHookFails(c)
                  THEN Return(c, "post_hook", TraceError(counters, "CreatedFailed"), did, "ok",
                              TRUE, k, st, Absent, 0, "")
                  ELSE Return(c, "nil", Add1(counters, "Created"), did, "ok",
                              TRUE, k, st, Absent, 0, c.id)

\* The Client.Set failure is traced with GetCounterCountedFailed().
RedisUpdate(c) ==
    /\ adapter = "redis"
    /\ c.op = "Update"
    /\ LET k == MemKey(c.id)
       IN IF c.id = "" THEN Fail(c, "required_id", "UpdatedFailed", {})
          ELSE IF OptionFails(c) THEN Fail(c, "option", "UpdatedFailed", Span)
          ELSE IF PreHookFails(c)
          THEN Return(c, "pre_hook", TraceError(counters, "UpdatedFailed"), Span \cup Pre(c),
                      "not_called", TRUE, k, store, Absent, 0, "")
          ELSE IF CodecFails(c)
          THEN Return(c, "codec", TraceError(counters, "UpdatedFailed"), Span \cup Pre(c),
                      "not_called", TRUE, k, store, Absent, 0, "")
          ELSE IF DriverFails(c)
          THEN Return(c, "failed_to", TraceError(counters, "CountedFailed"),
                      Span \cup Pre(c) \cup Driver, "error", TRUE, k, store, Absent, 0, "")
          ELSE LET st == [store EXCEPT ![k] = c.v]
                   did == Span \cup Pre(c) \cup Driver \cup Post(c)
               IN IF PostHookFails(c)
                  THEN Return(c, "post_hook", TraceError(counters, "UpdatedFailed"), did, "ok",
                              TRUE, k, st, Absent, 0, "")
                  ELSE Return(c, "nil", Add1(counters, "Updated"), did, "ok",
                              TRUE, k, st, Absent, 0, "")

\* ------------------------------------------------------------------------
\* insightly: a contact is POSTed to the CRM endpoint named by the target;
\* every other operation answers HTTP 501 Not Implemented
\* ------------------------------------------------------------------------
InsightlyCount(c) ==
    /\ adapter = "insightly"
    /\ c.op = "Count"
    /\ Fail(c, "not_implemented", "CountedFailed", Span)

\* No id check here.
InsightlyDelete(c) ==
    /\ adapter = "insightly"
    /\ c.op = "Delete"
    /\ Fail(c, "not_implemented", "DeletedFailed", Span)

\* The 501 is traced with GetCounterRetrieved().
InsightlyRetrieve(c) ==
    /\ adapter = "insightly"
    /\ c.op = "Retrieve"
    /\ IF c.id = "" THEN Fail(c, "required_id", "RetrievedFailed", {})
       ELSE Fail(c, "not_implemented", "Retrieved", Span)

\* The 501 is traced with GetCounterListed().
InsightlyList(c) ==
    /\ adapter = "insightly"
    /\ c.op = "List"
    /\ Fail(c, "not_implemented", "Listed", Span)

\* The contact lands in the CRM under an id the server chooses; the model
\* keeps the latest contact of an endpoint under the endpoint's key.
InsightlyCreate(c) ==
    /\ adapter = "insightly"
    /\ c.op = "Create"
    /\ LET t == TargetName(c.target, staticTarget)
           k == PathKey(t.name)
       IN IF c.id = "" THEN Fail(c, "required_id", "CreatedFailed", {})
          ELSE IF OptionFails(c) THEN Fail(c, "option", "CreatedFailed", Span)
          ELSE IF t.err # "nil" THEN Fail(c, t.err, "CreatedFailed", Span)
          ELSE IF PreHookFails(c)
          THEN Return(c, "pre_hook", TraceError(counters, "CreatedFailed"), Span \cup Pre(c),
                      "not_called", TRUE, k, store, Absent, 0, "")
          ELSE IF DriverFails(c) \/ CodecFails(c)
          THEN Return(c, "io", TraceError(counters, "CreatedFailed"),
                      Span \cup Pre(c) \cup Driver, "error", TRUE, k, store, Absent, 0, "")
          ELSE LET st == [store EXCEPT ![k] = c.v]
                   did == Span \cup Pre(c) \cup Driver \cup Post(c)
               IN IF PostHookFails(c)
                  THEN Return(c, "post_hook", TraceError(counters, "CreatedFailed"), did, "ok",
                              TRUE, k, st, Absent, 0, "")
                  ELSE Return(c, "nil", Add1(counters, "Created"), did, "ok",
                              TRUE, k, st, Absent, 0, "contact")

\* The 501 is traced with GetCounterUpdated().
InsightlyUpdate(c) ==
    /\ adapter = "insightly"
    /\ c.op = "Update"
    /\ IF c.id = "" THEN Fail(c, "required_id", "UpdatedFailed", {})
       ELSE Fail(c, "not_implemented", "Updated", Span)

\* ------------------------------------------------------------------------
\* postgres: the resolved target is the table, rows are keyed by their id
\* column (PRIMARY KEY)
\* ------------------------------------------------------------------------
RowKey(trgt, id) == <<trgt, id>>

PostgresCount(c) ==
    /\ adapter = "postgres"
    /\ c.op = "Count"
    /\ LET t == TargetName(c.target, staticTarget)
       IN IF OptionFails(c) THEN Fail(c, "option", "CountedFailed", Span)
          ELSE IF t.err # "nil" THEN Fail(c, t.err, "CountedFailed", Span)
          ELSE IF PreHookFails(c) THEN Fail(c, "pre_hook", "CountedFailed", Span \cup Pre(c))
          ELSE IF DriverFails(c)
          THEN Return(c, "failed_to", TraceError(counters, "CountedFailed"),
                      Span \cup Pre(c) \cup Driver, "error", FALSE, NoKey, store, Absent, 0, "")
          ELSE LET count == Cardinality({k \in Keys : k[1] = t.name /\ store[k] # Absent})
                   did == Span \cup Pre(c) \cup Driver \cup Post(c)
               IN IF PostHookFails(c)
                  THEN Return(c, "post_hook", TraceError(counters, "CountedFailed"), did, "ok",
                              FALSE, NoKey, store, Absent, 0, "")
                  ELSE Return(c, "nil", Add1(counters, "Counted"), did, "ok",
                              FALSE, NoKey, store, Absent, count, "")

\* DELETE ... WHERE id = $1 affecting no row is not an error.
PostgresDelete(c) ==
    /\ adapter = "postgres"
    /\ c.op = "Delete"
    /\ LET t == TargetName(c.target, staticTarget)
           k == RowKey(t.name, c.id)
       IN IF c.id = "" THEN Fail(c, "required_id", "DeletedFailed", {})
          ELSE IF OptionFails(c) THEN Fail(c, "option", "DeletedFailed", Span)
          ELSE IF t.err # "nil" THEN Fail(c, t.err, "DeletedFailed", Span)
          ELSE IF PreHookFails(c)
          THEN Return(c, "pre_hook", TraceError(counters, "DeletedFailed"), Span \cup Pre(c),
                      "not_called", TRUE, k, store, Absent, 0, "")
          ELSE IF DriverFails(c)
          THEN Return(c, "failed_to", TraceError(counters, "DeletedFailed"),
                      Span \cup Pre(c) \cup Driver, "error", TRUE, k, store, Absent, 0, "")
          ELSE LET st == [store EXCEPT ![k] = Absent]
                   did == Span \cup Pre(c) \cup Driver \cup Post(c)
               IN IF PostHookFails(c)
                  THEN Return(c, "post_hook", TraceError(counters, "DeletedFailed"), did, "ok",
                              TRUE, k, st, Absent, 0, "")
                  ELSE Return(c, "nil", Add1(counters, "Deleted"), did, "ok",
                              TRUE, k, st, Absent, 0, "")

\* sql.ErrNoRows becomes the HTTP 404 error; a scan failure is a failed-to
\* error like any other driver error.
PostgresRetrieve(c) ==
    /\ adapter = "postgres"
    /\ c.op = "Retrieve"
    /\ LET t == TargetName(c.target, staticTarget)
           k == RowKey(t.name, c.id)
       IN IF c.id = "" THEN Fail(c, "required_id", "RetrievedFailed", {})
          ELSE IF OptionFails(c) THEN Fail(c, "option", "RetrievedFailed", Span)
          ELSE IF t.err # "nil" THEN Fail(c, t.err, "RetrievedFailed", Span)
          ELSE IF PreHookFails(c)
          THEN Return(c, "pre_hook", TraceError(counters, "RetrievedFailed"), Span \cup Pre(c),
                      "not_called", TRUE, k, store, Absent, 0, "")
          ELSE IF DriverFails(c)
          THEN Return(c, "failed_to", TraceError(counters, "RetrievedFailed"),
                      Span \cup Pre(c) \cup Driver, "error", TRUE, k, store, Absent, 0, "")
          ELSE IF store[k] = Absent
          THEN Return(c, "not_found", TraceError(counters, "RetrievedFailed"),
                      Span \cup Pre(c) \cup Driver, "not_exist", TRUE, k, store, Absent, 0, "")
          ELSE IF CodecFails(c)
          THEN Return(c, "failed_to", TraceError(counters, "RetrievedFailed"),
                      Span \cup Pre(c) \cup Driver, "ok", TRUE, k, store, Absent, 0, "")
          ELSE LET did == Span \cup Pre(c) \cup Driver \cup Post(c)
               IN IF PostHookFails(c)
                  THEN Return(c, "post_hook", TraceError(counters, "RetrievedFailed"), did, "ok",
                              TRUE, k, store, store[k], 0, "")
                  ELSE Return(c, "nil", Add1(counters, "Retrieved"), did, "ok",
                              TRUE, k, store, store[k], 0, "")

PostgresList(c) ==
    /\ adapter = "postgres"
    /\ c.op = "List"
    /\ LET t == TargetName(c.target, staticTarget)
       IN IF OptionFails(c) THEN Fail(c, "option", "ListedFailed", Span)
          ELSE IF t.err # "nil" THEN Fail(c, t.err, "ListedFailed", Span)
          ELSE IF PreHookFails(c) THEN Fail(c, "pre_hook", "ListedFailed", Span \cup Pre(c))
          ELSE IF DriverFails(c) \/ CodecFails(c)
          THEN Return(c, "failed_to", TraceError(counters, "ListedFailed"),
                      Span \cup Pre(c) \cup Driver, "error", FALSE, NoKey, store, Absent, 0, "")
          ELSE LET n == Cardinality({k \in Keys : k[1] = t.name /\ store[k] # Absent})
                   did == Span \cup Pre(c) \cup Driver \cup Post(c)
               IN IF PostHookFails(c)
                  THEN Return(c, "post_hook", TraceError(counters, "ListedFailed"), did, "ok",
                              FALSE, NoKey, store, Absent, 0, "")
                  ELSE Return(c, "nil", Add1(counters, "Listed"), did, "ok",
                              FALSE, NoKey, store, Absent, n, "")

\* INSERT INTO trgt ... RETURNING id: the row's id is the one v carries, and
\* a second row with that id violates the primary key.  A post-hook error is
\* returned as it is, without TraceError.
PostgresCreate(c) ==
    /\ adapter = "postgres"
    /\ c.op = "Create"
    /\ LET t == TargetName(c.target, staticTarget)
           k == RowKey(t.name, c.v.id)
       IN IF OptionFails(c) THEN Fail(c, "option", "CreatedFailed", Span)
          ELSE IF t.err # "nil" THEN Fail(c, t.err, "CreatedFailed", Span)
          ELSE IF PreHookFails(c)
          THEN Return(c, "pre_hook", TraceError(counters, "CreatedFailed"), Span \cup Pre(c),
                      "not_called", TRUE, k, store, Absent, 0, "")
          ELSE IF CodecFails(c)
          THEN Return(c, "failed_to", TraceError(counters, "CreatedFailed"), Span \cup Pre(c),
                      "not_called", TRUE, k, store, Absent, 0, "")
          ELSE IF DriverFails(c) \/ store[k] # Absent
          THEN Return(c, "failed_to", TraceError(counters, "CreatedFailed"),
                      Span \cup Pre(c) \cup Driver, "error", TRUE, k, store, Absent, 0, "")
          ELSE LET st == [store EXCEPT ![k] = c.v]
                   did == Span \cup Pre(c) \cup Driver \cup Post(c)
               IN IF PostHookFails(c)
                  THEN Return(c, "post_hook", counters, did, "ok", TRUE, k, st, Absent, 0, "")
                  ELSE Return(c, "nil", Add1(counters, "Created"), did, "ok",
                              TRUE, k, st, Absent, 0, c.v.id)

\* UPDATE trgt SET <v> WHERE id = $1: no matching row is not an error; a
\* matching row takes every column of v, its id included.
PostgresUpdate(c) ==
    /\ adapter = "postgres"
    /\ c.op = "Update"
    /\ LET t == TargetName(c.target, staticTarget)
           k == RowKey(t.name, c.id)
           k2 == RowKey(t.name, c.v.id)
       IN IF c.id = "" THEN Fail(c, "required_id", "UpdatedFailed", {})
          ELSE IF OptionFails(c) THEN Fail(c, "option", "UpdatedFailed", Span)
          ELSE IF t.err # "nil" THEN Fail(c, t.err, "UpdatedFailed", Span)
          ELSE IF PreHookFails(c)
          THEN Return(c, "pre_hook", TraceError(counters, "UpdatedFailed"), Span \cup Pre(c),
                      "not_called", TRUE, k, store, Absent, 0, "")
          ELSE IF CodecFails(c)
          THEN Return(c, "failed_to", TraceError(counters, "UpdatedFailed"), Span \cup Pre(c),
                      "not_called", TRUE, k, store, Absent, 0, "")
          ELSE IF DriverFails(c) \/ (store[k] # Absent /\ k2 # k /\ store[k2] # Absent)
          THEN Return(c, "failed_to", TraceError(counters, "UpdatedFailed"),
                      Span \cup Pre(c) \cup Driver, "error", TRUE, k, store, Absent, 0, "")
          ELSE LET st == IF store[k] = Absent THEN store
                         ELSE [[store EXCEPT ![k] = Absent] EXCEPT ![k2] = c.v]
                   did == Span \cup Pre(c) \cup Driver \cup Post(c)
               IN IF PostHookFails(c)
                  THEN Return(c, "post_hook", TraceError(counters, "UpdatedFailed"), did, "ok",
                              TRUE, k, st, Absent, 0, "")
                  ELSE Return(c, "nil", Add1(counters, "Updated"), did, "ok",
                              TRUE, k, st, Absent, 0, "")

\* ------------------------------------------------------------------------
\* Fan-out (one operation across the adapters of a Map) and fan-in (many
\* items against one adapter).  The children are calls through the IStorage
\* interface; what each child answers is an input of the call.
\* ------------------------------------------------------------------------
ChildErrors == {"e1", "e2"}

ChildAnswers == {"ok"} \cup ChildErrors

\* What the children of one call answer, in the order concurrentloop hands
\* them back.
ChildRuns == UNION {[1..n -> ChildAnswers] : n \in 0..MaxChildren}

NoMany ==
    [fn |-> "none", children |-> <<>>, invoked |-> <<>>, lens |-> <<>>,
     isNil |-> TRUE, payload |-> <<>>, errs |-> <<>>]

IsOk(a) == a = "ok"

IsErr(a) == a # "ok"

\* concurrentloop.Map / MapM: every child runs; the results of those that
\* succeeded and the errors of those that failed come back as two lists.
\* A child's result is tagged with the child that produced it.
MapResults(run) ==
    LET idx == [i \in 1..Len(run) |-> i]
        IsOkIdx(i) == IsOk(run[i])
    IN SelectSeq(idx, IsOkIdx)

MapErrors(run) == SelectSeq(run, IsErr)

\* concurrentloop.Map / MapM hand every element (adapter of the Map, id of
\* the list, key of the items map) to the callback once; the callback makes
\* one call through the IStorage interface.  invoked[i] is the number of
\* operation calls made for element i.
Invoked(run) == [i \in 1..Len(run) |-> 1]

NoLens(run) == [i \in 1..Len(run) |-> 0]

\* The value a call leaves behind: what each child answered, how often each
\* was invoked, and the (payload, error) pair returned.
ManyResult(fn, run, lens, payload, errs) ==
    [fn |-> fn, children |-> run, invoked |-> Invoked(run), lens |-> lens,
     isNil |-> Len(errs) > 0, payload |-> IF Len(errs) > 0 THEN <<>> ELSE payload,
     errs |-> errs]

\* ReturnAll without the last result: an off-by-one in collecting results.
ReturnAllButLast(fn, run) ==
    /\ many' = ManyResult(fn, run, NoLens(run),
                          SubSeq(MapResults(run), 1, Len(MapResults(run)) - 1),
                          MapErrors(run))
    /\ calls' = calls + 1
    /\ UNCHANGED <<adapter, staticTarget, counters, store, last, prev, created, written, query, slotVars,
                   fan>>

\* if len(errs) > 0 { return nil, errs }; return r, nil
ReturnAll(fn, run) ==
    /\ many' = ManyResult(fn, run, NoLens(run), MapResults(run), MapErrors(run))
    /\ calls' = calls + 1
    /\ UNCHANGED <<adapter, staticTarget, counters, store, last, prev, created, written, query, slotVars,
                   fan>>

CountFromMany(run) == ReturnAll("CountFromMany", run)

CreateIntoMany(run) == ReturnAll("CreateIntoMany", run)

DeleteFromMany(run) == ReturnAll("DeleteFromMany", run)

\* What the children of a ListFromMany answer: a child that succeeds hands
\* back a list of 0..MaxList elements, a child that fails hands back none.
ChildLens(run) ==
    {lens \in [1..Len(run) -> 0..MaxList] : \A i \in 1..Len(run) : IsErr(run[i]) => lens[i] = 0}

\* The list of child i: its elements are tagged with the child and their
\* position in the child's list.
ChildList(i, len) == [j \in 1..len |-> <<i, j>>]

RECURSIVE Flatten2DHeads(_)

RECURSIVE Flatten2D(_)

\* Flatten2D keeping only the first element of every inner list.
Flatten2DHeads(data) ==
    IF data = <<>> THEN <<>>
    ELSE (IF Head(data) = <<>> THEN <<>> ELSE <<Head(Head(data))>>)
         \o Flatten2DHeads(Tail(data))

\* storage.Flatten2D: the inner lists appended one after the other.
Flatten2D(data) ==
    IF data = <<>> THEN <<>> ELSE Head(data) \o Flatten2D(Tail(data))

\* r holds the lists of the children that succeeded; return Flatten2D(r), nil
ListFromMany(run, lens) ==
    /\ lens \in ChildLens(run)
    /\ LET ok == MapResults(run)
           r == [p \in 1..Len(ok) |-> ChildList(ok[p], lens[ok[p]])]
       IN many' = ManyResult("ListFromMany", run, lens, Flatten2D(r), MapErrors(run))
    /\ calls' = calls + 1
    /\ UNCHANGED <<adapter, staticTarget, counters, store, last, prev, created, written, query, slotVars,
                   fan>>

\* if len(err) > 0 { return nil, err[0] }
RetrieveFromMany(run) ==
    /\ many' = ManyResult("RetrieveFromMany", run, NoLens(run), MapResults(run),
                          IF Len(MapErrors(run)) > 0 THEN <<MapErrors(run)[1]>> ELSE <<>>)
    /\ calls' = calls + 1
    /\ UNCHANGED <<adapter, staticTarget, counters, store, last, prev, created, written, query, slotVars,
                   fan>>

UpdateIntoMany(run) == ReturnAll("UpdateIntoMany", run)

\* CreateMany that loses the id of the last item.
CreateManyButLast(run) == ReturnAllButLast("CreateMany", run)

\* Create(ctx, str, key, target, item, prm) for every (key, item) of itemsMap
CreateMany(run) == ReturnAll("CreateMany", run)

DeleteMany(run) == ReturnAll("DeleteMany", run)

RetrieveMany(run) == ReturnAll("RetrieveMany", run)

UpdateMany(run) == ReturnAll("UpdateMany", run)

\* ------------------------------------------------------------------------
\* CreateMany and DeleteMany followed child by child: the child operations
\* run concurrently against one adapter and the call joins them
\* ------------------------------------------------------------------------
NoFan == [fn |-> "none", pc |-> "idle", kids |-> <<>>, rounds |-> 0, base |-> 0]

\* The keys of an items map and the ids of an id list, in the order the
\* children are numbered.
IdRuns == UNION {[1..n -> DataIds] : n \in 0..MaxChildren}

Distinct(ids) == \A i, j \in 1..Len(ids) : ids[i] = ids[j] => i = j

\* Whether the driver step of a child fails.
KidFail == {"none", "driver"}

\* successCounter + failedCounter of an operation
PairSum(ctrs, op) == ctrs[SuccessCounter(op)] + ctrs[FailedCounter(op)]

\* Every increment made so far on the adapter's counters.
Total(ctrs) ==
    PairSum(ctrs, "Count") + PairSum(ctrs, "Create") + PairSum(ctrs, "Retrieve")
    + PairSum(ctrs, "Update") + PairSum(ctrs, "Delete") + PairSum(ctrs, "List")

\* ------------------------------------------------------------------------
\* Count and List of the SQL adapters (postgres, mysql) and of the search
\* adapter (elasticsearch): what becomes of the caller's Search, Sort, Limit
\* and Offset, and which ctx the driver is given
\* ------------------------------------------------------------------------
QueryAdapters == {"postgres", "mysql", "elasticsearch"}

\* The rows of every table and index, in storage order, and their versions.
TableRows == <<"c", "a", "b">>

Version(id) == CASE id = "a" -> 1 [] id = "b" -> 2 [] id = "c" -> 3

\* Position of an id in the ordering of strings.
IdRank(id) == CASE id = "a" -> 1 [] id = "b" -> 2 [] id = "c" -> 3

\* A Search: blank, or a statement (SQL) or query (search adapter) that
\* selects all rows or the rows of version > 1 of a table.  For Count the
\* statement is the COUNT(*) over the same rows.
Blank == [sel |-> "", table |-> ""]

Select(sel, table) == [sel |-> sel, table |-> table]

Searches == {Blank, Select("all", "t"), Select("gt1", "t")}

Sorts == {"none", "asc", "desc"}

Limits == {0, 1}

Offsets == {0, 1}

\* prm == nil
NilPrm == [nil |-> TRUE, search |-> Blank, sort |-> "none", limit |-> 0, offset |-> 0]

ListPrms ==
    {NilPrm} \cup
    [nil : {FALSE}, search : Searches, sort : Sorts, limit : Limits, offset : Offsets]

CountPrms ==
    {NilPrm} \cup
    [nil : {FALSE}, search : Searches, sort : {"none"}, limit : {0}, offset : {0}]

\* list.New() and count.New(): the parameter object before the adapter's
\* defaults; the adapters set or test its Search right after.
ParamNew == [nil |-> FALSE, search |-> Blank, sort |-> "none", limit |-> 0, offset |-> 0]

QueryHookFail ==
    {<<{}, "none">>, <<HookNames, "none">>, <<{}, "option">>, <<HookNames, "pre">>,
     <<{}, "driver">>, <<HookNames, "post">>}

Ctxs == {"live", "cancelled"}

QueryCall(op, target, prm, hf, ctx) ==
    [op |-> op, target |-> target, prm |-> prm, hooks |-> hf[1], failAt |-> hf[2], ctx |-> ctx]

QueryCalls ==
    {QueryCall("List", t, p, hf, x) :
        t \in Targets, p \in ListPrms, hf \in QueryHookFail, x \in Ctxs}
    \cup
    {QueryCall("Count", t, p, hf, x) :
        t \in Targets, p \in CountPrms, hf \in QueryHookFail, x \in Ctxs}

\* What the driver is handed: the statement, and what is to order and to
\* cut its rows.
Statement(search, sort, limit, offset) ==
    [search |-> search, sort |-> sort, limit |-> limit, offset |-> offset]

NoStatement == Statement(Blank, "unset", 0, 0)

SeqRange(q) == {q[i] : i \in 1..Len(q)}

Matches(sel, id) == sel = "all" \/ (sel = "gt1" /\ Version(id) > 1)

Before(dir, x, y) == IF dir = "asc" THEN IdRank(x) < IdRank(y) ELSE IdRank(x) > IdRank(y)

OrderById(rows, dir) ==
    LET S == SeqRange(rows)
    IN [i \in 1..Len(rows) |->
          CHOOSE e \in S : Cardinality({x \in S : Before(dir, x, e)}) = i - 1]

Paginate(rows, limit, offset) ==
    LET upto == IF limit > 0 /\ offset + limit < Len(rows) THEN offset + limit ELSE Len(rows)
    IN SubSeq(rows, offset + 1, upto)

\* The backend running a statement: the rows the statement selects, in
\* storage order unless it orders them, cut by its offset and limit.  A blank
\* statement selects nothing.
Execute(stmt) ==
    LET found   == SelectSeq(TableRows, LAMBDA id : Matches(stmt.search.sel, id))
        ordered == IF stmt.sort \in {"asc", "desc"} THEN OrderById(found, stmt.sort) ELSE found
    IN Paginate(ordered, stmt.limit, stmt.offset)

NoQuery ==
    [adapter |-> "none", op |-> "none", target |-> "", prm |-> NilPrm, hooks |-> {},
     failAt |-> "none", ctx |-> "live", err |-> "none", trgt |-> "", final |-> NilPrm,
     prmAfter |-> NilPrm, called |-> FALSE, stmt |-> NoStatement, ctxGiven |-> "none",
     rows |-> <<>>, n |-> 0]

\* The end of a Count or List: counter, result and what the call did.
QueryReturn(c, err, ctrs, trgt, fin, after, called, stmt, ctxGiven, rows, n) ==
    /\ counters' = ctrs
    /\ calls' = calls + 1
    /\ query' = [adapter |-> adapter, op |-> c.op, target |-> c.target, prm |-> c.prm,
                 hooks |-> c.hooks, failAt |-> c.failAt, ctx |-> c.ctx, err |-> err,
                 trgt |-> trgt, final |-> fin, prmAfter |-> after, called |-> called,
                 stmt |-> stmt, ctxGiven |-> ctxGiven, rows |-> rows, n |-> n]
    /\ UNCHANGED <<adapter, staticTarget, store, last, prev, created, written, many, slotVars, fan>>

\* A failure before the driver is called.
QueryFail(c, err, counter, trgt, fin, after) ==
    QueryReturn(c, err, TraceError(counters, counter), trgt, fin, after,
                FALSE, NoStatement, "none", <<>>, 0)

\* The driver call and what follows it.  A driver given a cancelled ctx
\* gives up with the ctx's error; a driver given another ctx does not see
\* the cancellation.
QueryRun(c, trgt, fin, after, stmt, ctxGiven) ==
    LET op     == c.op
        rows   == Execute(stmt)
        seesCancel == ctxGiven = "op" /\ c.ctx = "cancelled"
    IN IF DriverFails(c) \/ seesCancel
       THEN QueryReturn(c, "failed_to", TraceError(counters, FailedCounter(op)), trgt, fin,
                        after, TRUE, stmt, ctxGiven, <<>>, 0)
       ELSE IF PostHookFails(c)
       THEN QueryReturn(c, "post_hook", TraceError(counters, FailedCounter(op)), trgt, fin,
                        after, TRUE, stmt, ctxGiven, <<>>, 0)
       ELSE QueryReturn(c, "nil", Add1(counters, SuccessCounter(op)), trgt, fin, after, TRUE,
                        stmt, ctxGiven, IF op = "List" THEN rows ELSE <<>>, Len(rows))

\* "SELECT * FROM " + trgt and "SELECT COUNT(*) FROM " + trgt
DefaultSearch(trgt) == Select("all", trgt)

\* if prm != nil { if prm.Search != "" { prm.Search = defaultSearch } }:
\* the caller's parameter object after the call.
SQLPrmAfter(prm, trgt) ==
    IF ~prm.nil /\ prm.search # Blank THEN [prm EXCEPT !.search = DefaultSearch(trgt)] ELSE prm

\* finalParam of the SQL adapters
SQLFinalParam(prm, trgt) ==
    IF prm.nil
    THEN [ParamNew EXCEPT !.search = DefaultSearch(trgt)]
    ELSE SQLPrmAfter(prm, trgt)

\* Count and List of postgres and mysql: options, target, parameters,
\* pre-hook, QueryRowContext / SelectContext(ctx, finalParam.Search).
SQLQuery(c) ==
    LET t      == TargetName(c.target, staticTarget)
        failed == FailedCounter(c.op)
    IN IF OptionFails(c) THEN QueryFail(c, "option", failed, "", NilPrm, c.prm)
       ELSE IF t.err # "nil" THEN QueryFail(c, t.err, failed, "", NilPrm, c.prm)
       ELSE LET fin   == SQLFinalParam(c.prm, t.name)
                after == SQLPrmAfter(c.prm, t.name)
            IN IF PreHookFails(c) THEN QueryFail(c, "pre_hook", failed, t.name, fin, after)
               ELSE QueryRun(c, t.name, fin, after,
                             Statement(fin.search, "none", 0, 0), "op")

PostgresCountSearch(c) == adapter = "postgres" /\ c.op = "Count" /\ SQLQuery(c)

PostgresListSearch(c) == adapter = "postgres" /\ c.op = "List" /\ SQLQuery(c)

MySQLCount(c) == adapter = "mysql" /\ c.op = "Count" /\ SQLQuery(c)

MySQLList(c) == adapter = "mysql" /\ c.op = "List" /\ SQLQuery(c)

\* {"match_all" : {} }
MatchAll(trgt) == Select("all", trgt)

\* finalParam of the search adapter: finalParam.Search = match_all;
\* if prm != nil { finalParam = prm }
ESFinalParam(prm, trgt) ==
    IF prm.nil THEN [ParamNew EXCEPT !.search = MatchAll(trgt)] ELSE prm

\* buildQuery: a blank Search is a "search" required error; else the body
\* holds the query, the sort, from and size.
buildQuery(params) ==
    IF params.search = Blank
    THEN [err |-> "required_search", body |-> NoStatement]
    ELSE [err |-> "nil",
          body |-> Statement(params.search, params.sort, params.limit, params.offset)]

\* Count and List of elasticsearch: options, parameters, target, pre-hook,
\* buildQuery, req.Do(context.Background(), es.Client).  Count builds its
\* query from the Search alone.
ESQuery(c) ==
    LET t      == TargetName(c.target, staticTarget)
        failed == FailedCounter(c.op)
    IN IF OptionFails(c) THEN QueryFail(c, "option", failed, "", NilPrm, c.prm)
       ELSE IF t.err # "nil" THEN QueryFail(c, t.err, failed, "", NilPrm, c.prm)
       ELSE LET fin == ESFinalParam(c.prm, t.name)
                q   == IF c.op = "Count"
                       THEN buildQuery([ParamNew EXCEPT !.search = fin.search])
                       ELSE buildQuery(fin)
            IN IF PreHookFails(c) THEN QueryFail(c, "pre_hook", failed, t.name, fin, c.prm)
               ELSE IF q.err # "nil" THEN QueryFail(c, q.err, failed, t.name, fin, c.prm)
               ELSE QueryRun(c, t.name, fin, c.prm, q.body, "background")

ElasticSearchCount(c) == adapter = "elasticsearch" /\ c.op = "Count" /\ ESQuery(c)

ElasticSearchList(c) == adapter = "elasticsearch" /\ c.op = "List" /\ ESQuery(c)

\* ------------------------------------------------------------------------
\* New, Get and Set: the singleton slot of an adapter package
\* ------------------------------------------------------------------------
Kinds == {"memory", "redis", "sftp", "insightly", "s3"}

\* var singleton storage.IStorage
Nil == [kind |-> "nil", n |-> 0]

\* A storage that is none of the adapters, as tests hand to Set.
Mock == [kind |-> "mock", n |-> 0]

\* The n-th adapter the New functions built.
Instance(kind, n) == [kind |-> kind, n |-> n]

SetValues == {Nil, Mock}

\* What New is called with: arguments it can work with and a backend that
\* answers the first probe ("ok"), a backend that answers from the second or
\* from the fourth probe on, one that never answers, or arguments the
\* validation of the adapter rejects.
NewInputs == {"ok", "second", "fourth", "unreachable", "invalid"}

ProbeInputs == {"ok", "second", "fourth", "unreachable"}

\* The probe from which the backend answers; 0 when it never does.
AnswersAt(input) ==
    CASE input = "second" -> 2
      [] input = "fourth" -> 4
      [] input = "unreachable" -> 0
      [] OTHER -> 1

\* retrier.ExponentialBackoff(3, shared.TimeoutPing): three backoff delays.
Backoffs == 3

\* ssh.Dial is called outside any retrier.
NoBackoff == 0

\* retrier.New(backoff, nil).Run(work): work is run, and run again after
\* each backoff delay for as long as it fails, so at most once more than
\* there are delays; the last error is the result.
RetrierRun(backoffs, answersAt) ==
    IF answersAt \in 1..(backoffs + 1)
    THEN [attempts |-> answersAt, ok |-> TRUE]
    ELSE [attempts |-> backoffs + 1, ok |-> FALSE]

NoPrevSlotCall == [fn |-> "none", kind |-> "", err |-> "none", before |-> Nil]

NoSlotCall ==
    [fn |-> "none", kind |-> "", input |-> "", err |-> "none", panicked |-> FALSE,
     value |-> Nil, before |-> Nil, counter |-> NoCounter, attempts |-> 0,
     prev |-> NoPrevSlotCall]

NoAssignment == [value |-> Nil, sets |-> 0]

\* The end of New, Get or Set: slot is the slot's content after the call,
\* value what the call returned (for Set, what it was given), counter the
\* counter TraceError was given, attempts the connectivity probes made and
\* exported the adapter kinds with counters of this clock second.
SlotReturn(fn, kind, input, err, panicked, value, slot, counter, nbuilt, attempts, exported) ==
    /\ singleton' = [singleton EXCEPT ![kind] = slot]
    /\ built' = nbuilt
    /\ slotCall' = [fn |-> fn, kind |-> kind, input |-> input, err |-> err,
                    panicked |-> panicked, value |-> value, before |-> singleton[kind],
                    counter |-> counter, attempts |-> attempts,
                    prev |-> [fn |-> slotCall.fn, kind |-> slotCall.kind,
                              err |-> slotCall.err, before |-> slotCall.before]]
    /\ assigned' =
         IF fn = "New" /\ err = "nil" THEN [assigned EXCEPT ![kind].value = value]
         ELSE IF fn = "Set" THEN [assigned EXCEPT ![kind] = [value |-> value, sets |-> @.sets + 1]]
         ELSE assigned
    /\ exportedNow' = exported
    /\ calls' = calls + 1
    /\ UNCHANGED <<adapter, staticTarget, counters, store, last, prev, created, written, many,
                   query, fan>>

\* storage.New(ctx, name) builds the fourteen counters with metrics.NewInt,
\* which exports each under name + "--" + time.Now().Format(time.RFC3339):
\* expvar.NewInt panics on a name that is exported already, that is when
\* storage.New ran for the adapter kind earlier in the same clock second.
StorageNewPanics(kind) == kind \in exportedNow

\* New ends in the panic of storage.New.
NewPanics(kind, input) ==
    SlotReturn("New", kind, input, "panic", TRUE, Nil, singleton[kind], NoCounter, built, 0,
               exportedNow)

\* New fails after storage.New and leaves the slot alone.
NewFails(kind, input, err, counter, attempts) ==
    SlotReturn("New", kind, input, err, FALSE, Nil, singleton[kind], counter, built, attempts,
               exportedNow \cup {kind})

\* singleton = storage; return storage, nil
NewStores(kind, input, attempts) ==
    SlotReturn("New", kind, input, "nil", FALSE, Instance(kind, built + 1),
               Instance(kind, built + 1), NoCounter, built + 1, attempts,
               exportedNow \cup {kind})

\* New of an adapter that probes its backend: storage.New, the probe through
\* the retrier, then the validation, which the client New built passes.
ProbingNew(kind, input, backoffs) ==
    LET r == RetrierRun(backoffs, AnswersAt(input))
    IN IF StorageNewPanics(kind) THEN NewPanics(kind, input)
       ELSE IF ~r.ok THEN NewFails(kind, input, "failed_to", "PingFailed", r.attempts)
       ELSE NewStores(kind, input, r.attempts)

\* memory.New(ctx): nothing of the adapter depends on the caller.
MemoryNew ==
    IF StorageNewPanics("memory") THEN NewPanics("memory", "ok")
    ELSE NewStores("memory", "ok", 0)

\* redis.New(ctx, cfg): the ping through the retrier, then the validation.
RedisNew(input) == input \in ProbeInputs /\ ProbingNew("redis", input, Backoffs)

\* sftp.New(ctx, addr, cfg): parse, one dial and connect, then the validation.
SFTPNew(input) == input \in ProbeInputs /\ ProbingNew("sftp", input, NoBackoff)

\* insightly.New that puts the adapter in the slot before validating it.
InsightlyNewStoresFirst(input) ==
    /\ input \in {"ok", "invalid"}
    /\ IF StorageNewPanics("insightly") THEN NewPanics("insightly", input)
       ELSE IF input = "invalid"
       THEN SlotReturn("New", "insightly", input, "validation", FALSE, Nil,
                       Instance("insightly", built + 1), NoCounter, built + 1, 0,
                       exportedNow \cup {"insightly"})
       ELSE NewStores("insightly", input, 0)

\* insightly.New(ctx, endpoint, apiKey): Endpoint is required and a URL,
\* APIKey is required; no backend is contacted.  The validation's error goes
\* to TraceError with a nil counter.
InsightlyNew(input) ==
    /\ input \in {"ok", "invalid"}
    /\ IF StorageNewPanics("insightly") THEN NewPanics("insightly", input)
       ELSE IF input = "invalid" THEN NewFails("insightly", input, "validation", NoCounter, 0)
       ELSE NewStores("insightly", input, 0)

\* s3.New(ctx, bucket, cfg): a filled slot is handed back, when it holds an
\* *S3; else storage.New, the ping through the retrier, then the validation.
S3New(input) ==
    /\ input \in ProbeInputs
    /\ IF singleton["s3"] # Nil
       THEN IF singleton["s3"].kind = "s3"
            THEN SlotReturn("New", "s3", input, "nil", FALSE, singleton["s3"],
                            singleton["s3"], NoCounter, built, 0, exportedNow)
            ELSE SlotReturn("New", "s3", input, "failed_to", FALSE, Nil, singleton["s3"],
                            NoCounter, built, 0, exportedNow)
       ELSE ProbingNew("s3", input, Backoffs)

\* Get that hands back an empty slot.
GetNoPanic(kind) ==
    SlotReturn("Get", kind, "", "nil", FALSE, singleton[kind], singleton[kind], NoCounter, built,
               0, exportedNow)

\* if singleton == nil { panic(...) }; return singleton
Get(kind) ==
    SlotReturn("Get", kind, "", "nil", singleton[kind] = Nil, singleton[kind],
               singleton[kind], NoCounter, built, 0, exportedNow)

\* singleton = s
Set(kind, s) ==
    SlotReturn("Set", kind, "", "nil", FALSE, s, s, NoCounter, built, 0, exportedNow)

\* The clock reaches the next second: names exported from now on differ from
\* all that are exported.
Tick ==
    /\ exportedNow # {}
    /\ exportedNow' = {}
    /\ UNCHANGED <<adapter, staticTarget, counters, store, calls, last, prev, created, written,
                   many, query, fan, singleton, built, slotCall, assigned>>

\* ------------------------------------------------------------------------
\* Specification
\* ------------------------------------------------------------------------
Init ==
    /\ adapter \in Adapters
    /\ staticTarget \in StaticTargets
    /\ counters = [n \in CounterNames |-> 0]
    /\ store = [k \in Keys |-> Absent]
    /\ calls = 0
    /\ last = NoCall
    /\ prev = NoCall
    /\ created = [k \in Keys |-> Absent]
    /\ written = [k \in Keys |-> Absent]
    /\ many = NoMany
    /\ query = NoQuery
    /\ singleton = [k \in Kinds |-> Nil]
    /\ built = 0
    /\ slotCall = NoSlotCall
    /\ assigned = [k \in Kinds |-> NoAssignment]
    /\ exportedNow = {}
    /\ fan = NoFan

\* One operation call on the adapter.
Handle(c) ==
    \/ MemoryCount(c)
    \/ MemoryDelete(c)
    \/ MemoryRetrieve(c)
    \/ MemoryList(c)
    \/ MemoryCreate(c)
    \/ MemoryUpdate(c)
    \/ FileCount(c)
    \/ FileDelete(c)
    \/ FileRetrieve(c)
    \/ FileList(c)
    \/ FileCreate(c)
    \/ FileUpdate(c)
    \/ SFTPCount(c)
    \/ SFTPDelete(c)
    \/ SFTPRetrieve(c)
    \/ SFTPList(c)
    \/ SFTPCreate(c)
    \/ SFTPUpdate(c)
    \/ RedisCount(c)
    \/ RedisDelete(c)
    \/ RedisRetrieve(c)
    \/ RedisList(c)
    \/ RedisCreate(c)
    \/ RedisUpdate(c)
    \/ InsightlyCount(c)
    \/ InsightlyDelete(c)
    \/ InsightlyRetrieve(c)
    \/ InsightlyList(c)
    \/ InsightlyCreate(c)
    \/ InsightlyUpdate(c)
    \/ PostgresCount(c)
    \/ PostgresDelete(c)
    \/ PostgresRetrieve(c)
    \/ PostgresList(c)
    \/ PostgresCreate(c)
    \/ PostgresUpdate(c)

Next == calls < MaxCalls /\ UNCHANGED fan /\ \E c \in WideCalls : Handle(c)

Spec == Init /\ [][Next]_vars

NextOnce == calls < MaxOnce /\ UNCHANGED fan /\ \E c \in WideCalls : Handle(c)

SpecOnce == Init /\ [][NextOnce]_vars

NextData == calls < MaxRounds /\ UNCHANGED fan /\ \E c \in DataCalls : Handle(c)

SpecData == Init /\ [][NextData]_vars

NextMany ==
    /\ calls < MaxMany
    /\ \E run \in ChildRuns :
          \/ CountFromMany(run)
          \/ CreateIntoMany(run)
          \/ DeleteFromMany(run)
          \/ \E lens \in ChildLens(run) : ListFromMany(run, lens)
          \/ RetrieveFromMany(run)
          \/ UpdateIntoMany(run)
          \/ CreateMany(run)
          \/ DeleteMany(run)
          \/ RetrieveMany(run)
          \/ UpdateMany(run)

\* The fan-out functions take the adapters as arguments; which adapter the
\* single-call specifications follow plays no part.
InitMany == Init /\ adapter = "memory" /\ staticTarget = ""

SpecMany == InitMany /\ [][NextMany]_vars

\* One SQL or search adapter and its Count and List calls.
InitQuery ==
    /\ adapter \in QueryAdapters
    /\ staticTarget \in StaticTargets
    /\ counters = [n \in CounterNames |-> 0]
    /\ store = [k \in Keys |-> Absent]
    /\ calls = 0
    /\ last = NoCall
    /\ prev = NoCall
    /\ created = [k \in Keys |-> Absent]
    /\ written = [k \in Keys |-> Absent]
    /\ many = NoMany
    /\ query = NoQuery
    /\ singleton = [k \in Kinds |-> Nil]
    /\ built = 0
    /\ slotCall = NoSlotCall
    /\ assigned = [k \in Kinds |-> NoAssignment]
    /\ exportedNow = {}
    /\ fan = NoFan

NextQuery ==
    /\ calls < MaxQuery
    /\ \E c \in QueryCalls :
          \/ PostgresCountSearch(c)
          \/ PostgresListSearch(c)
          \/ MySQLCount(c)
          \/ MySQLList(c)
          \/ ElasticSearchCount(c)
          \/ ElasticSearchList(c)

SpecQuery == InitQuery /\ [][NextQuery]_vars

\* The packages' New, Get and Set, called in any order.
InitSlot == Init /\ adapter = "memory" /\ staticTarget = ""

NextSlot ==
    /\ calls < MaxSlot
    /\ \/ MemoryNew
       \/ \E input \in NewInputs : RedisNew(input)
       \/ \E input \in NewInputs : SFTPNew(input)
       \/ \E input \in NewInputs : InsightlyNew(input)
       \/ \E input \in NewInputs : S3New(input)
       \/ \E kind \in Kinds : Get(kind)
       \/ \E kind \in Kinds, s \in SetValues : Set(kind, s)
       \/ Tick

SpecSlot == InitSlot /\ [][NextSlot]_vars

\* concurrentloop.Map / MapM starts one child per element; nothing else of
\* the program moves at the start.
FanStart(fn, op, ids, fails) ==
    /\ fan.pc \in {"idle", "returned"}
    /\ fan.rounds < MaxJoin
    /\ fan' = [fn |-> fn, pc |-> "running",
               kids |-> [i \in 1..Len(ids) |->
                           [c |-> Call(op, ids[i], "t", [id |-> ids[i], ver |-> 1], "default",
                                       <<{}, fails[i]>>),
                            pc |-> "ready", err |-> "none"]],
               rounds |-> fan.rounds + 1, base |-> Total(counters)]
    /\ UNCHANGED <<adapter, staticTarget, counters, store, calls, last, prev, created, written,
                   many, query, slotVars>>

\* CreateMany(ctx, str, target, prm, itemsMap): Create(ctx, str, key,
\* target, item, prm) for every key of the map, without options.
CreateManyStart(ids, fails) ==
    /\ Distinct(ids)
    /\ FanStart("CreateMany", "Create", ids, fails)

\* DeleteMany(ctx, str, target, prm, ids...): Delete(ctx, str, id, target,
\* prm) for every id, without options.
DeleteManyStart(ids, fails) == FanStart("DeleteMany", "Delete", ids, fails)

\* A closure that hands its operation to a goroutine of its own and
\* returns at once: the child is done for the join and its operation has
\* not run.
ChildCallDetached(i) ==
    /\ fan.pc = "running"
    /\ i \in 1..Len(fan.kids)
    /\ fan.kids[i].pc = "ready"
    /\ fan' = [fan EXCEPT !.kids[i].pc = "done"]
    /\ UNCHANGED <<adapter, staticTarget, counters, store, calls, last, prev, created, written,
                   many, query, slotVars>>

\* One child operation runs on the adapter; the children run in any order.
\* A counter's Add is one atomic step of expvar.Int.
ChildCall(i) ==
    /\ fan.pc = "running"
    /\ i \in 1..Len(fan.kids)
    /\ fan.kids[i].pc = "ready"
    /\ Handle(fan.kids[i].c)
    /\ fan' = [fan EXCEPT !.kids[i].pc = "done", !.kids[i].err = last'.err]

\* What the children answered, as concurrentloop collects it.
FanRun == [i \in 1..Len(fan.kids) |-> IF fan.kids[i].err = "nil" THEN "ok" ELSE "e1"]

\* The end of the call with the given children answered.
FanReturn ==
    /\ fan' = [fan EXCEPT !.pc = "returned"]
    /\ many' = ManyResult(fan.fn, FanRun, NoLens(FanRun), MapResults(FanRun), MapErrors(FanRun))
    /\ UNCHANGED <<adapter, staticTarget, counters, store, calls, last, prev, created, written,
                   query, slotVars>>

\* concurrentloop.Map / MapM return when every child has returned.
Join ==
    /\ fan.pc = "running"
    /\ \A i \in 1..Len(fan.kids) : fan.kids[i].pc = "done"
    /\ FanReturn

InitJoin == Init /\ staticTarget = ""

NextJoin ==
    \/ \E ids \in IdRuns : \E fails \in [1..Len(ids) -> KidFail] : CreateManyStart(ids, fails)
    \/ \E ids \in IdRuns : DeleteManyStart(ids, [i \in 1..Len(ids) |-> "none"])
    \/ \E i \in 1..MaxChildren : ChildCall(i)
    \/ Join

SpecJoin == InitJoin /\ [][NextJoin]_vars

\* ------------------------------------------------------------------------
\* Properties
\* ------------------------------------------------------------------------
\* An operation call has just been made (fan-out calls leave last alone).
Called == calls' = calls + 1 /\ last' # last

\* ... and it returned to its caller, with a value or an error.
Returned == Called /\ last'.err # "panic"

\* C1: every single call of an operation that returns, with success or with
\* an error, raises successCounter + failedCounter of that operation by
\* exactly 1.
C1_SumIncreasesByOne ==
    [][Returned => PairSum(counters', last'.op) = PairSum(counters, last'.op) + 1]_vars

\* C2: when a call fails, the only counter that changes is the failed counter
\* of that same operation.
C2_OnlyOwnFailedCounter ==
    [][Called /\ last'.err # "nil" =>
         \A n \in CounterNames \ {FailedCounter(last'.op)} : counters'[n] = counters[n]]_vars

\* C3: with a post-hook registered, the post-hook is invoked if and only if
\* the call got past the pre-hook and the driver step without a failure,
\* i.e. it either succeeded or failed in the post-hook itself.
C3_PostHookIffDriverSucceeded ==
    (last.op # "none" /\ "post" \in last.hooks) =>
        (("post" \in last.did) <=> (last.err \in {"nil", "post_hook"}))

\* C4: a call that returns the pre-hook's error has called neither the native
\* driver nor the post-hook.
C4_PreHookErrorShortCircuits ==
    last.err = "pre_hook" => ("driver" \notin last.did /\ "post" \notin last.did)

\* C5: Retrieve, Update and Delete called with an empty id return the
\* Required("id") error, increment only the operation's failed counter and
\* make no driver call.
C5_EmptyIdRequired ==
    [][Called /\ last'.op \in {"Retrieve", "Update", "Delete"} /\ last'.id = "" =>
         /\ last'.err = "required_id"
         /\ "driver" \notin last'.did
         /\ counters' = [counters EXCEPT ![FailedCounter(last'.op)] = @ + 1]]_vars

\* The checks a handler makes before the target is looked at all pass.
ValidUpToTarget(l) ==
    /\ l.op # "none"
    /\ l.op \in {"Retrieve", "Update", "Delete"} => l.id # ""
    /\ (adapter = "insightly" /\ l.op = "Create") => l.id # ""
    /\ l.failAt # "option"
    /\ l.prm = "default"

\* The adapter resolves a target in this operation.
ResolvesTarget(a, op) ==
    \/ a \in {"file", "sftp", "postgres"}
    \/ a = "insightly" /\ op = "Create"

\* C6 as stated: on every adapter, an otherwise valid call with an empty
\* per-call target and an empty static target returns the missing-target
\* error, and with one of the two non-empty it does not.
C6_MissingTargetEveryAdapter ==
    ValidUpToTarget(last) =>
        ((last.target = "" /\ staticTarget = "") <=> (last.err = "missing_target"))

\* C6 amended: the rule holds in the operations that resolve a target (all six
\* of file, sftp and postgres; Create of insightly); memory and redis never
\* look at the target and return no missing-target error, and neither do the
\* unimplemented operations of insightly.
C6_MissingTargetWhereResolved ==
    /\ (ValidUpToTarget(last) /\ ResolvesTarget(adapter, last.op)) =>
          ((last.target = "" /\ staticTarget = "") <=> (last.err = "missing_target"))
    /\ (last.op # "none" /\ ~ResolvesTarget(adapter, last.op)) => last.err # "missing_target"

C6_Witness ==
    /\ adapter = "postgres" /\ last.op = "Count" /\ ValidUpToTarget(last)
    /\ last.target = "" /\ staticTarget = "" /\ last.err = "missing_target"

\* C7: when at least one child of a fan-out or fan-in call fails, the call
\* returns a nil payload and an error holding every child error that occurred.
C7_AggregateHoldsEveryChildError ==
    (many.fn # "none" /\ \E i \in DOMAIN many.children : IsErr(many.children[i])) =>
        /\ many.isNil
        /\ \A i \in DOMAIN many.children :
              IsErr(many.children[i]) =>
                  \E j \in DOMAIN many.errs : many.errs[j] = many.children[i]

\* A Retrieve that nothing interferes with: no hook, driver or codec failure.
Undisturbed(l) == l.failAt = "none"

SameDeleteTwice ==
    /\ prev.op = "Delete" /\ last.op = "Delete"
    /\ prev.id = last.id /\ prev.target = last.target
    /\ prev.hooks = last.hooks /\ prev.failAt = last.failAt

\* C9: deleting a record that does not exist twice in a row gives the same
\* outcome both times, and on file and sftp that outcome is success.
C9_DeleteMissingTwice ==
    (SameDeleteTwice /\ ~prev.existed) =>
        /\ prev.err = last.err
        /\ (adapter \in {"file", "sftp"} /\ last.addressed /\ Undisturbed(last)) =>
              (prev.err = "nil" /\ last.err = "nil")

C9_Witness ==
    /\ SameDeleteTwice /\ ~prev.existed /\ prev.addressed /\ Undisturbed(last)
    /\ adapter = "sftp" /\ prev.err = "nil" /\ last.err = "nil"
    /\ prev.drv = "not_exist"

\* C10: an undisturbed Retrieve of a record that is not in the backend
\* returns the not-found error as a value: no panic, no success, no other
\* error kind.
C10_RetrieveMissingIsNotFound ==
    (last.op = "Retrieve" /\ Undisturbed(last) /\ last.addressed /\ ~last.existed) =>
        last.err = "not_found"

FanOutFunctions ==
    {"CountFromMany", "CreateIntoMany", "DeleteFromMany", "ListFromMany",
     "RetrieveFromMany", "UpdateIntoMany"}

\* Every element was handed to the operation exactly once.
EachInvokedOnce(m) ==
    /\ Len(m.invoked) = Len(m.children)
    /\ \A i \in 1..Len(m.children) : m.invoked[i] = 1

\* The payload holds one result per element, each element's result once.
OneResultEach(m) ==
    /\ Len(m.payload) = Len(m.children)
    /\ \A i \in 1..Len(m.children) :
          Cardinality({p \in 1..Len(m.payload) : m.payload[p] = i}) = 1

Positions(m, i, j) == {p \in 1..Len(m.payload) : m.payload[p] = <<i, j>>}

\* C13: on success ListFromMany returns the concatenation of the adapters'
\* lists: every element of every list exactly once, nothing else, and the
\* elements of one adapter in their original relative order.
C13_ListFromManyFlattens ==
    (many.fn = "ListFromMany" /\ ~many.isNil) =>
        /\ \A i \in 1..Len(many.children) : \A j \in 1..many.lens[i] :
              Cardinality(Positions(many, i, j)) = 1
        /\ \A p \in 1..Len(many.payload) :
              /\ many.payload[p][1] \in 1..Len(many.children)
              /\ many.payload[p][2] \in 1..many.lens[many.payload[p][1]]
        /\ \A p, q \in 1..Len(many.payload) :
              (p < q /\ many.payload[p][1] = many.payload[q][1]) =>
                  many.payload[p][2] < many.payload[q][2]

C13_Witness ==
    /\ many.fn = "ListFromMany" /\ ~many.isNil
    /\ Len(many.children) = 2 /\ many.lens[1] = 2 /\ many.lens[2] = 2
    /\ Len(many.payload) = 4

\* The most recent call was a List of a relational adapter.
RelationalList == query.adapter \in {"postgres", "mysql"} /\ query.op = "List"

\* The statement a relational List is to run for a parameter object: the
\* caller's Search, ordered by its Sort, cut by its Limit and Offset.
CallersStatement(prm) == Statement(prm.search, prm.sort, prm.limit, prm.offset)

\* C14: a relational List given a parameter object with a Search runs that
\* Search as the statement, with ORDER BY from Sort and LIMIT / OFFSET when
\* positive, and on success hands back the rows that statement selects; with
\* rows a, b, c of versions 1, 2, 3, Search version > 1, Sort id ascending
\* and Limit 1 the result is the one row b.
C14_ListRunsCallersStatement ==
    (RelationalList /\ ~query.prm.nil /\ query.prm.search # Blank /\ query.called) =>
        /\ query.stmt = CallersStatement(query.prm)
        /\ query.err = "nil" => query.rows = Execute(CallersStatement(query.prm))

\* The call got as far as the driver step: no option, target or pre-hook
\* failure ended it.
PastPreHook == query.op # "none" /\ query.err \notin {"option", "missing_target", "pre_hook"}

\* C15: when the caller's parameter object has a blank Search, a SQL adapter
\* runs SELECT * FROM <table> (List) or SELECT COUNT(*) FROM <table> (Count)
\* for the resolved table, and the search adapter queries with match_all.
C15_BlankSearchRunsDefault ==
    (PastPreHook /\ ~query.prm.nil /\ query.prm.search = Blank) =>
        /\ query.called
        /\ query.stmt.search = DefaultSearch(query.trgt)

\* C19: the driver call of an operation is given the operation's ctx, so a
\* call whose ctx is cancelled sees its driver call give up.
C19_DriverGetsOperationCtx ==
    query.called =>
        /\ query.ctxGiven = "op"
        /\ query.ctx = "cancelled" => query.err = "failed_to"

ValidationFailed(call) == call.fn = "New" /\ call.err = "validation"

\* C17 as stated: after a New whose validation failed the slot is nil (here
\* even for the adapter kinds Set was never called on).
C17_ValidationFailureLeavesNil ==
    (ValidationFailed(slotCall) /\ assigned[slotCall.kind].sets = 0) =>
        singleton[slotCall.kind] = Nil

\* C17 amended: a New whose validation fails returns an error and leaves the
\* slot as it was: nil when no New or Set filled it before, and then a
\* following Get panics; the adapter of an earlier New when there was one.
C17_ValidationFailureLeavesSlot ==
    /\ ValidationFailed(slotCall) =>
          /\ singleton[slotCall.kind] = slotCall.before
          /\ slotCall.value = Nil
    /\ (slotCall.fn = "Get" /\ ValidationFailed(slotCall.prev)
          /\ slotCall.prev.kind = slotCall.kind /\ slotCall.prev.before = Nil) =>
          slotCall.panicked

C17_Witness ==
    /\ slotCall.fn = "Get" /\ slotCall.panicked
    /\ ValidationFailed(slotCall.prev)
    /\ slotCall.prev.kind = slotCall.kind /\ slotCall.prev.before = Nil

\* C18: with no Set call on the adapter kind, a New that finds the slot
\* filled leaves in it what it found.
C18_SlotWrittenOnce ==
    (slotCall.fn = "New" /\ assigned[slotCall.kind].sets = 0 /\ slotCall.before # Nil) =>
        singleton[slotCall.kind] = slotCall.before

\* C20: the pre-hook runs when the parameter object and the target are
\* resolved, so a call that ran it does not end in a target error, and
\* before any side effect on the backend, so a call that ends in the
\* pre-hook's error leaves the backend as it was.
C20_PreHookBeforeSideEffect ==
    [][(Called /\ "pre" \in last'.did) =>
         /\ last'.err # "missing_target"
         /\ last'.err = "pre_hook" => store' = store]_vars

\* The call went through customapm.TraceError, which records the error on
\* the span and increments the counter it is given.
Traced == counters' # counters

\* C21: an operation call that returns an error has started a trace span for
\* the operation, and the error is recorded on it before the deferred
\* span.End() ends it (stated here for the failure paths after the id
\* pre-check, which the handlers make before they start the span).
C21_FailureEndsSpanWithError ==
    [][(Called /\ last'.err \notin {"nil", "panic", "required_id"}) =>
         ("span" \in last'.did /\ Traced)]_vars

\* The adapter kinds whose New opens a native client and probes the backend.
ClientKinds == {"redis", "sftp", "s3"}

\* C22: New of an adapter that opens a native client probes the backend at
\* most three times, and a New that returns an error after its probes
\* failed leaves the singleton as it was.
C22_ProbeAtMostThreeTimes ==
    (slotCall.fn = "New" /\ slotCall.kind \in ClientKinds /\ slotCall.attempts > 0) =>
        /\ slotCall.attempts <= 3
        /\ slotCall.err # "nil" => singleton[slotCall.kind] = slotCall.before

C24_ConcurrentCallsCountedOnce ==
    fan.pc = "returned" => Total(counters) - fan.base = Len(fan.kids)

\* The memory adapter took a call of the data slice.
MemoryStep == adapter = "memory" /\ calls' = calls + 1 /\ last'.op # "none"

Mutating == {"Create", "Update", "Delete"}

\* The ids in the map after a call that the map took as a Create or Update
\* (adds) or as a Delete (removes), and after any other call.
StoredAfter(stored, op, key, took) ==
    IF ~took THEN stored
    ELSE IF op \in {"Create", "Update"} THEN stored \cup {key}
    ELSE IF op = "Delete" THEN stored \ {key}
    ELSE stored

\* C25 as stated: in-memory Count returns, whatever its Search, the number
\* of ids whose most recent successful Create, Update or Delete is a Create
\* or Update; here for a Count that follows the first call on an empty map.
C25_CountIsSuccessfullyWrittenIds ==
    (adapter = "memory" /\ calls = 2 /\ last.op = "Count" /\ last.err = "nil"
        /\ prev.op \in Mutating) =>
        last.n = Cardinality(StoredAfter({}, prev.op, MemKey(prev.id), prev.err = "nil"))

\* C25 amended: in-memory Count returns, whatever its Search, the number of
\* ids in the map, and the ids in the map are those whose most recent
\* Create, Update or Delete that reached the map is a Create or Update,
\* whether or not that call then failed in its post-hook.
C25_CountIsStoredIds ==
    [][MemoryStep =>
        /\ (last'.op = "Count" /\ last'.err = "nil") =>
              last'.n = Cardinality(Stored(store))
        /\ Stored(store') =
              StoredAfter(Stored(store), last'.op, MemKey(last'.id), last'.drv = "ok")]_vars

C25_Witness ==
    /\ adapter = "memory"
    /\ last.op = "Count" /\ last.prm = "search" /\ last.err = "nil" /\ last.n = 1
    /\ prev.op = "Create" /\ prev.id = "b" /\ prev.err = "post_hook"

\* C26: a Count or List leaves the parameter object of its caller as the
\* caller built it.
C26_CallerParamUntouched ==
    query.op # "none" => query.prmAfter = query.prm

\* C27: a Create, Update or Delete that returns an error leaves the
\* backend's stored content as it was before the call.
C27_FailedMutationLeavesStore ==
    [][(calls' = calls + 1 /\ last'.op \in Mutating /\ last'.err \notin {"nil", "panic"}) =>
          store' = store]_vars

\* C28: an operation called with a nil parameter object does not panic.
C28_NilParamNeverPanics ==
    (last.op # "none" /\ last.prm = "nil") => last.err # "panic"

\* C29: a New that fails at the validation step has incremented the
\* storage's instantiation.failed counter once.
C29_ValidationFailureCounted ==
    ValidationFailed(slotCall) => slotCall.counter = "InstantiationFailed"

\* C30: constructing a Storage of a name that was constructed before, in the
\* same clock second or in another, does not panic.
C30_SameNameNeverPanics ==
    slotCall.fn = "New" => (~slotCall.panicked /\ slotCall.err # "panic")

====
